---- MODULE Spec2Model ----
(***************************************************************************)
(* ToonStore: append-only record store (toonstoredb), LRU read cache       *)
(* (tooncache) and RESP front-end (tstd).                                  *)
(*                                                                         *)
(* Seventeen specifications share the definitions of this module:          *)
(*   SpecLru    the LruCache alone (crates/tooncache/src/lru.rs)           *)
(*   SpecStore  the ToonStore alone, with concurrent callers               *)
(*              (crates/toonstoredb/src/storage.rs)                        *)
(*   SpecFront  the command handler over ToonCache over ToonStore, started *)
(*              without a password                                         *)
(*              (crates/tstd/src/handler.rs, crates/tooncache/src/cache.rs)*)
(*   SpecGate   the same started with --password, cache capacity 1         *)
(*   SpecAuth   the command handler in its three authentication modes,     *)
(*              with USER commands and reconnecting clients                *)
(*              (crates/tstd/src/main.rs, users.rs, auth.rs, handler.rs)   *)
(*   SpecResp   the RESP codec fed by one connection's read buffer         *)
(*              (crates/tstd/src/resp.rs, main.rs handle_client)           *)
(*   SpecCache  the ToonCache with its statistics, concurrent callers      *)
(*              (crates/tooncache/src/cache.rs, stats.rs)                  *)
(*   SpecOpen   the ToonStore reopened over a damaged index file           *)
(*              (storage.rs open, open_existing)                           *)
(*   SpecSave   SpecFront with save_keymap in two steps, create and write  *)
(*              (handler.rs save_keymap, save_keymap_static)               *)
(*   SpecRebuild the start of the command handler over an existing store   *)
(*              (handler.rs new, load_keymap, rebuild_keymap)              *)
(*   SpecConn   the request loop of one connection                         *)
(*              (main.rs handle_client, handler.rs handle)                 *)
(*   SpecAccept the accept loop and its connection permits (main.rs main)  *)
(*   SpecKill   the ToonStore with a process that is killed and reopens    *)
(*              (storage.rs put, close, open_existing)                     *)
(*   SpecKeys   KEYS over a directory (handler.rs handle_keys,             *)
(*              matches_pattern)                                           *)
(*   SpecSeq    the ToonCache called by one caller (cache.rs)              *)
(*   SpecLocks  the locks taken by concurrent commands                     *)
(*              (handler.rs, cache.rs, storage.rs)                         *)
(*   SpecFlush  SET, FLUSHDB and restart of the daemon (handler.rs         *)
(*              handle_flushdb, new, rebuild_keymap)                       *)
(*                                                                         *)
(* Rust Option<T> is modelled as a sequence of length 0 (None) or 1        *)
(* (Some(x)).  Arena slots and row ids are 0-based as in the source; the   *)
(* TLA+ sequences holding them are read at position idx + 1.               *)
(***************************************************************************)
EXTENDS Integers, Sequences, FiniteSets, TLC

VARIABLES
    lru,        \* SpecLru: the LruCache under test; SpecFront: ToonCache.cache
    lruOp,      \* SpecLru: what the last LruCache call did (history)
    store,      \* the ToonStore handle and its two files
    thr,        \* what each calling thread (SpecStore) or connection task
                \* (SpecFront) is in the middle of
    sh,         \* history: of the calls made on the store (SpecStore), of the
                \* commands answered (SpecFront)
    key_map,    \* SpecFront: CommandHandler.key_map, key -> row id
    keymap_file,\* SpecFront: the bytes of <data_dir>/keymap.txt
    session,    \* SpecFront: the SessionState of each connection
    auth_config,\* SpecFront: CommandHandler.auth_config
    user_manager,\* SpecFront: CommandHandler.user_manager, None or Some(users)
    buffer,     \* SpecResp: the read buffer of handle_client (BytesMut)
    wire,       \* SpecResp: the bytes the peer has sent and read_buf has not
                \* delivered yet
    rx,         \* SpecResp: history of the connection's parse calls
    stats       \* SpecCache: ToonCache.stats, the hit and miss counters
                \* (not modelled in the other specifications)

None == <<>>

Some(x) == <<x>>

IsSome(o) == o # <<>>

Unwrap(o) == o[1]

(* Function f without the key k (HashMap::remove). *)
MapRemove(f, k) == [x \in (DOMAIN f) \ {k} |-> f[x]]

(* Function f with k mapped to v (HashMap::insert). *)
MapInsert(f, k, v) == [x \in (DOMAIN f) \cup {k} |-> IF x = k THEN v ELSE f[x]]

EmptyMap == [x \in {} |-> 0]

(***************************************************************************)
(* Bounds of the LRU model.                                                *)
(***************************************************************************)
MaxCapacity == 3

LruKeys == 0 .. MaxCapacity

LruValues == {"a", "b"}

(***************************************************************************)
(* LruCache<K, V>                                                          *)
(***************************************************************************)

(* LruCache::new: capacity > 0 is asserted by the constructor. *)
LruNew(capacity) ==
    [map |-> EmptyMap, nodes |-> <<>>, head |-> None, tail |-> None,
     free_list |-> <<>>, capacity |-> capacity]

(* self.nodes[idx] *)
NodeAt(c, idx) == c.nodes[idx + 1]

(* self.nodes[idx] = Some(node), in place *)
SetNode(c, idx, node) == [c EXCEPT !.nodes[idx + 1] = Some(node)]

(* LruCache::unlink *)
unlink(c, idx) ==
    IF ~IsSome(NodeAt(c, idx)) THEN c
    ELSE
      LET prev == Unwrap(NodeAt(c, idx)).prev
          next == Unwrap(NodeAt(c, idx)).next
          c1 == IF IsSome(prev)
                THEN IF IsSome(NodeAt(c, Unwrap(prev)))
                     THEN SetNode(c, Unwrap(prev),
                            [Unwrap(NodeAt(c, Unwrap(prev))) EXCEPT !.next = next])
                     ELSE c
                ELSE [c EXCEPT !.head = next]
      IN  IF IsSome(next)
          THEN IF IsSome(NodeAt(c1, Unwrap(next)))
               THEN SetNode(c1, Unwrap(next),
                      [Unwrap(NodeAt(c1, Unwrap(next))) EXCEPT !.prev = prev])
               ELSE c1
          ELSE [c1 EXCEPT !.tail = prev]

(* The part of move_to_front and put that links slot idx in front of the
   current head: head.prev = Some(idx); self.head = Some(idx). *)
LinkHead(c, idx) ==
    LET c1 == IF IsSome(c.head) /\ IsSome(NodeAt(c, Unwrap(c.head)))
              THEN SetNode(c, Unwrap(c.head),
                     [Unwrap(NodeAt(c, Unwrap(c.head))) EXCEPT !.prev = Some(idx)])
              ELSE c
    IN  [c1 EXCEPT !.head = Some(idx)]

(* LruCache::move_to_front *)
move_to_front(c, idx) ==
    IF c.head = Some(idx) THEN c
    ELSE
      LET c1 == unlink(c, idx)
          c2 == IF IsSome(NodeAt(c1, idx))
                THEN SetNode(c1, idx,
                       [Unwrap(NodeAt(c1, idx)) EXCEPT !.prev = None, !.next = c1.head])
                ELSE c1
      IN  LinkHead(c2, idx)

(* LruCache::free_node *)
free_node(c, idx) == [c EXCEPT !.free_list = Append(@, idx)]

(* A bug evict could have: taking the most recently used slot. *)
EvictVictim_head(c) == c.head

(* LruCache::evict, `if let Some(tail_idx) = self.tail`: the slot to evict. *)
EvictVictim(c) == c.tail

(* LruCache::evict *)
evict(c) ==
    IF IsSome(EvictVictim(c)) /\ IsSome(NodeAt(c, Unwrap(EvictVictim(c))))
    THEN LET tail_idx == Unwrap(EvictVictim(c))
             node == Unwrap(NodeAt(c, tail_idx))
             taken == [c EXCEPT !.nodes[tail_idx + 1] = None,
                                !.map = MapRemove(@, node.key)]
         IN  free_node(unlink(taken, tail_idx), tail_idx)
    ELSE c

(* LruCache::alloc_node: the cache after allocation and the slot index. *)
alloc_node(c) ==
    IF Len(c.free_list) > 0
    THEN [cache |-> [c EXCEPT !.free_list = SubSeq(@, 1, Len(@) - 1)],
          idx |-> c.free_list[Len(c.free_list)]]
    ELSE [cache |-> [c EXCEPT !.nodes = Append(@, None)],
          idx |-> Len(c.nodes)]

(* LruCache::get: the cache afterwards and the Option<&V> returned. *)
LruGet(c, key) ==
    IF key \in DOMAIN c.map
    THEN LET idx == c.map[key]
             c1 == move_to_front(c, idx)
         IN  [cache |-> c1,
              value |-> IF IsSome(NodeAt(c1, idx))
                        THEN Some(Unwrap(NodeAt(c1, idx)).value) ELSE None]
    ELSE [cache |-> c, value |-> None]

(* A bug put could have: an off-by-one capacity test. *)
AtCapacity_gt(c) == Cardinality(DOMAIN c.map) > c.capacity

(* LruCache::put, `self.map.len() >= self.capacity` *)
AtCapacity(c) == Cardinality(DOMAIN c.map) >= c.capacity

(* A bug put could have: leaving the value of a present key as it was. *)
UpdateValue_keep(node, value) == node

(* LruCache::put, `node.value = value` *)
UpdateValue(node, value) == [node EXCEPT !.value = value]

(* LruCache::put *)
LruPut(c, key, value) ==
    IF key \in DOMAIN c.map
    THEN LET idx == c.map[key]
             c1 == IF IsSome(NodeAt(c, idx))
                   THEN SetNode(c, idx, UpdateValue(Unwrap(NodeAt(c, idx)), value))
                   ELSE c
         IN  move_to_front(c1, idx)
    ELSE LET c1 == IF AtCapacity(c) THEN evict(c) ELSE c
             a == alloc_node(c1)
             c2 == SetNode(a.cache, a.idx,
                     [key |-> key, value |-> value, prev |-> None, next |-> a.cache.head])
             c3 == LinkHead(c2, a.idx)
             c4 == IF ~IsSome(c3.tail) THEN [c3 EXCEPT !.tail = Some(a.idx)] ELSE c3
         IN  [c4 EXCEPT !.map = MapInsert(@, key, a.idx)]

(* LruCache::remove: the cache afterwards and the Option<V> returned. *)
LruRemove(c, key) ==
    IF key \in DOMAIN c.map
    THEN LET idx == c.map[key]
             c1 == [c EXCEPT !.map = MapRemove(@, key)]
             c2 == free_node(unlink(c1, idx), idx)
         IN  [cache |-> [c2 EXCEPT !.nodes[idx + 1] = None],
              value |-> IF IsSome(NodeAt(c2, idx))
                        THEN Some(Unwrap(NodeAt(c2, idx)).value) ELSE None]
    ELSE [cache |-> c, value |-> None]

(* LruCache::len *)
LruLen(c) == Cardinality(DOMAIN c.map)

(* LruCache::clear *)
LruClear(c) ==
    [c EXCEPT !.map = EmptyMap, !.nodes = <<>>, !.free_list = <<>>,
              !.head = None, !.tail = None]

(***************************************************************************)
(* ToonStore (crates/toonstoredb/src/storage.rs)                           *)
(*                                                                         *)
(* Files are sequences of bytes (0..255).  A Result<T> is the record       *)
(* [err, val]: err = "Ok" with the value in val (a byte sequence, or a     *)
(* one-element sequence holding a number), or err names the Error kind.    *)
(* The two size limits are scaled down so that the model reaches them:     *)
(* the source has MAX_VALUE_SIZE = 1 MiB and MAX_DB_SIZE = 1 GiB.          *)
(***************************************************************************)
NL == 10

MAX_VALUE_SIZE == 2

MAX_DB_SIZE == 20

Bytes == {NL, 97}

(* The lines callers pass to put: every byte sequence up to one byte more
   than MAX_VALUE_SIZE. *)
Lines == UNION {[1 .. n -> Bytes] : n \in 0 .. MAX_VALUE_SIZE + 1}

Ok(v) == [err |-> "Ok", val |-> v]

Err(e) == [err |-> e, val |-> <<>>]

TOON_MAGIC == <<84, 79, 79, 78, 48, 48, 49, 10>>

TOON_IDX_MAGIC == <<84, 79, 79, 78, 73, 68, 88, 49>>

(* u32::to_le_bytes (w = 4) and u64::to_le_bytes (w = 8) *)
RECURSIVE ToLeBytes(_, _)
ToLeBytes(n, w) == IF w = 0 THEN <<>> ELSE <<n % 256>> \o ToLeBytes(n \div 256, w - 1)

(* u32::from_le_bytes / u64::from_le_bytes *)
RECURSIVE FromLeBytes(_)
FromLeBytes(b) == IF Len(b) = 0 THEN 0 ELSE b[1] + 256 * FromLeBytes(Tail(b))

(* create_header *)
create_header(version, row_count) ==
    TOON_MAGIC \o ToLeBytes(version, 4) \o ToLeBytes(row_count, 4)

(* parse_header: Ok(<<version, row_count>>) or Parse. *)
parse_header(input) ==
    IF Len(input) < Len(TOON_MAGIC) + 8 THEN Err("Parse")
    ELSE IF SubSeq(input, 1, Len(TOON_MAGIC)) # TOON_MAGIC THEN Err("Parse")
    ELSE Ok(<<FromLeBytes(SubSeq(input, Len(TOON_MAGIC) + 1, Len(TOON_MAGIC) + 4)),
              FromLeBytes(SubSeq(input, Len(TOON_MAGIC) + 5, Len(TOON_MAGIC) + 8))>>)

(* seek(Start(pos)) followed by write_all(bytes): overwrite in place,
   extending the file when the write runs past its end. *)
WriteAt(file, pos, bytes) ==
    [i \in 1 .. (IF pos + Len(bytes) > Len(file) THEN pos + Len(bytes) ELSE Len(file)) |->
        IF i > pos /\ i <= pos + Len(bytes) THEN bytes[i - pos] ELSE file[i]]

(* ToonStore::create_new: the files written and the handle's fields. *)
create_new ==
    [data_file |-> create_header(1, 0),
     idx_file |-> TOON_IDX_MAGIC \o ToLeBytes(0, 4),
     index |-> <<>>,
     db_size |-> Len(create_header(1, 0)),
     closed |-> FALSE]

(* ToonStore::open_existing, the offset loop: slot i of the index file. *)
IdxSlot(idx_file, i) ==
    LET offset == FromLeBytes(SubSeq(idx_file, Len(TOON_IDX_MAGIC) + 4 + 8 * (i - 1) + 1,
                                      Len(TOON_IDX_MAGIC) + 4 + 8 * i))
    IN  IF offset = 0 THEN None ELSE Some(offset)

(* ToonStore::open_existing: Ok(<<handle>>) or the error of the first
   failing read (read_exact on a short file is an Io error). *)
open_existing(data_file, idx_file) ==
    IF Len(data_file) < Len(TOON_MAGIC) + 8 THEN Err("Io")
    ELSE IF parse_header(SubSeq(data_file, 1, Len(TOON_MAGIC) + 8)).err # "Ok" THEN Err("Parse")
    ELSE IF Len(idx_file) < Len(TOON_IDX_MAGIC) THEN Err("Io")
    ELSE IF SubSeq(idx_file, 1, Len(TOON_IDX_MAGIC)) # TOON_IDX_MAGIC THEN Err("Parse")
    ELSE IF Len(idx_file) < Len(TOON_IDX_MAGIC) + 4 THEN Err("Io")
    ELSE LET count == FromLeBytes(SubSeq(idx_file, Len(TOON_IDX_MAGIC) + 1,
                                         Len(TOON_IDX_MAGIC) + 4))
         IN  IF Len(idx_file) < Len(TOON_IDX_MAGIC) + 4 + 8 * count THEN Err("Io")
             ELSE Ok(<<[data_file |-> data_file,
                        idx_file |-> idx_file,
                        index |-> [i \in 1 .. count |-> IdxSlot(idx_file, i)],
                        db_size |-> Len(data_file),
                        closed |-> FALSE]>>)

(* A bug put could have: numbering rows from 1. *)
NextRowId_one(index) == Len(index) + 1

(* ToonStore::put, `let row_id = index.len() as u64` *)
NextRowId(index) == Len(index)

(* A bug the calls could have: not looking at the closed flag. *)
IsClosed_never(st) == FALSE

(* `*self.closed.read()`, the first test of put, get, delete and close *)
IsClosed(st) == st.closed

(* A bug put could have: refusing the record of exactly MAX_VALUE_SIZE. *)
TooLong_ge(n) == n >= MAX_VALUE_SIZE

(* ToonStore::put, `line.len() > MAX_VALUE_SIZE` *)
TooLong(n) == n > MAX_VALUE_SIZE

(* A bug put could have: refusing the record that fills the file exactly. *)
DbFull_ge(db_size, n) == db_size + n + 1 >= MAX_DB_SIZE

(* ToonStore::put, `*db_size + line.len() as u64 + 1 > MAX_DB_SIZE` *)
DbFull(db_size, n) == db_size + n + 1 > MAX_DB_SIZE

(* ToonStore::put past its three tests: line and newline are written at
   the end of the data file, the offset is pushed, db_size is set. *)
AppendLine(st, line) ==
    LET offset == Len(st.data_file)
    IN  [st EXCEPT !.data_file = @ \o line \o <<NL>>,
                   !.index = Append(@, Some(offset)),
                   !.db_size = offset + Len(line) + 1]

(* ToonStore::put: the handle afterwards and Result<u64>. *)
StorePut(st, line) ==
    IF IsClosed(st) THEN [store |-> st, res |-> Err("Closed")]
    ELSE IF TooLong(Len(line)) THEN [store |-> st, res |-> Err("ValueTooLarge")]
    ELSE IF DbFull(st.db_size, Len(line))
         THEN [store |-> st, res |-> Err("DatabaseFull")]
    ELSE [store |-> AppendLine(st, line), res |-> Ok(<<NextRowId(st.index)>>)]

(* ToonStore::get, first half (under the index read lock): Ok(<<offset>>),
   NotFound or Closed. *)
GetLookup(st, row_id) ==
    IF IsClosed(st) THEN Err("Closed")
    ELSE IF row_id >= Len(st.index) THEN Err("NotFound")
    ELSE IF ~IsSome(st.index[row_id + 1]) THEN Err("NotFound")
    ELSE Ok(<<Unwrap(st.index[row_id + 1])>>)

(* ToonStore::get, second half (under the data file lock): seek to offset
   and read bytes up to the next newline; read_exact fails at end of file. *)
ReadLine(data_file, offset) ==
    LET nls == {i \in offset + 1 .. Len(data_file) : data_file[i] = NL}
    IN  IF nls = {} THEN Err("Io")
        ELSE Ok(SubSeq(data_file, offset + 1,
                       (CHOOSE i \in nls : \A j \in nls : i <= j) - 1))

(* ToonStore::get run without interruption. *)
StoreGet(st, row_id) ==
    IF GetLookup(st, row_id).err # "Ok" THEN GetLookup(st, row_id)
    ELSE ReadLine(st.data_file, GetLookup(st, row_id).val[1])

(* A bug delete could have: keeping the offset of the deleted row. *)
Tombstone_keep(slot) == slot

(* ToonStore::delete, `index[row_id as usize] = None` *)
Tombstone(slot) == None

(* A bug delete could have: taking the slot out of the index vector
   (Vec::remove), which moves every later row one id down. *)
StoreDelete_shift(st, row_id) ==
    IF IsClosed(st) THEN [store |-> st, res |-> Err("Closed")]
    ELSE IF row_id >= Len(st.index) THEN [store |-> st, res |-> Err("NotFound")]
    ELSE IF ~IsSome(st.index[row_id + 1]) THEN [store |-> st, res |-> Err("NotFound")]
    ELSE [store |-> [st EXCEPT !.index = SubSeq(@, 1, row_id)
                                          \o SubSeq(@, row_id + 2, Len(@))],
          res |-> Ok(<<>>)]

(* ToonStore::delete: the handle afterwards and Result<()>. *)
StoreDelete(st, row_id) ==
    IF IsClosed(st) THEN [store |-> st, res |-> Err("Closed")]
    ELSE IF row_id >= Len(st.index) THEN [store |-> st, res |-> Err("NotFound")]
    ELSE IF ~IsSome(st.index[row_id + 1]) THEN [store |-> st, res |-> Err("NotFound")]
    ELSE [store |-> [st EXCEPT !.index[row_id + 1] = Tombstone(@)], res |-> Ok(<<>>)]

(* ScanIterator::next: the row ids whose slot a scan finds live. *)
ScanLive(st) == {i \in 0 .. Len(st.index) - 1 : IsSome(st.index[i + 1])}

(* ToonStore::len *)
StoreLen(st) == Len(st.index)

(* ScanIterator::next called until it returns None, with no other call in
   between: the items yielded from slot current on.  A slot holding None is
   skipped; a live one yields get(row_id), bytes or error, and the iterator
   goes on to the next slot either way. *)
RECURSIVE ScanFrom(_, _, _)
ScanFrom(st, current, total) ==
    IF current >= total THEN <<>>
    ELSE IF ~IsSome(st.index[current + 1]) THEN ScanFrom(st, current + 1, total)
    ELSE <<[id |-> current, res |-> StoreGet(st, current)]>>
         \o ScanFrom(st, current + 1, total)

(* ToonStore::scan: current = 0, total = index.len(). *)
StoreScan(st) == ScanFrom(st, 0, Len(st.index))

(* A bug close could have: writing the offsets of the live rows only. *)
RECURSIVE IdxOffsets_live(_)
IdxOffsets_live(index) ==
    IF Len(index) = 0 THEN <<>>
    ELSE (IF IsSome(Head(index)) THEN ToLeBytes(Unwrap(Head(index)), 8) ELSE <<>>)
         \o IdxOffsets_live(Tail(index))

(* ToonStore::close, the offsets written to the index file. *)
IdxOffsets(index) ==
    [i \in 1 .. 8 * Len(index) |->
        ToLeBytes(IF IsSome(index[((i - 1) \div 8) + 1])
                  THEN Unwrap(index[((i - 1) \div 8) + 1]) ELSE 0, 8)[((i - 1) % 8) + 1]]

(* `index.len() as u32`.  A data file of at most MAX_DB_SIZE bytes holds
   fewer than 2^32 rows, so the cast never truncates. *)
AsU32(n) == n

(* ToonStore::close *)
StoreClose(st) ==
    IF IsClosed(st) THEN st
    ELSE LET row_count == AsU32(Len(st.index))
         IN  [st EXCEPT
                !.data_file = WriteAt(@, Len(TOON_MAGIC) + 4, ToLeBytes(row_count, 4)),
                !.idx_file = WriteAt(@, Len(TOON_IDX_MAGIC),
                                     ToLeBytes(row_count, 4) \o IdxOffsets(st.index)),
                !.closed = TRUE]

(***************************************************************************)
(* SpecLru: any sequence of get / put / remove / clear on one LruCache.    *)
(* lruOp records the call just made and three pieces of history:           *)
(*   before    the keys present before the call                            *)
(*   recency   the present keys, most recently touched (by a successful    *)
(*             get or by a put) first                                      *)
(*   expect    the least recently touched key before the call              *)
(*   fresh     Some(the <<key, value>> pairs put so far, in order) while   *)
(*             the history since new() is only puts of distinct keys,      *)
(*             None afterwards                                             *)
(***************************************************************************)
Touch(r, k) == <<k>> \o SelectSeq(r, LAMBDA x : x # k)

Present(r, c) == SelectSeq(r, LAMBDA x : x \in DOMAIN c.map)

LruHist(op, key, c, c2, recency2, fresh2, result) ==
    [op |-> op, key |-> key, before |-> DOMAIN c.map, recency |-> recency2,
     expect |-> IF Len(lruOp.recency) > 0
                THEN Some(lruOp.recency[Len(lruOp.recency)]) ELSE None,
     fresh |-> fresh2, result |-> result]

respVars == <<buffer, wire, rx>>

frontVars == <<key_map, keymap_file, session, auth_config, user_manager, respVars, stats>>

storeVars == <<store, thr, sh, frontVars>>

InitLru ==
    /\ store = create_new
    /\ thr = <<>>
    /\ sh = <<>>
    /\ key_map = EmptyMap
    /\ keymap_file = <<>>
    /\ session = <<>>
    /\ auth_config = <<>>
    /\ user_manager = <<>>
    /\ buffer = <<>>
    /\ wire = <<>>
    /\ rx = <<>>
    /\ stats = <<>>
    /\ \E capacity \in 1 .. MaxCapacity : lru = LruNew(capacity)
    /\ lruOp = [op |-> "new", key |-> 0, before |-> {}, recency |-> <<>>,
                expect |-> None, fresh |-> Some(<<>>), result |-> None]

LruGetOp(k) ==
    LET r == LruGet(lru, k)
    IN  /\ UNCHANGED storeVars
        /\ lru' = r.cache
        /\ lruOp' = LruHist("get", k, lru, r.cache,
                            IF IsSome(r.value) THEN Touch(lruOp.recency, k)
                            ELSE lruOp.recency,
                            None, r.value)

LruPutOp(k, v) ==
    LET c2 == LruPut(lru, k, v)
    IN  /\ UNCHANGED storeVars
        /\ lru' = c2
        /\ lruOp' = LruHist("put", k, lru, c2,
                            Touch(Present(lruOp.recency, c2), k),
                            IF IsSome(lruOp.fresh) /\ k \notin DOMAIN lru.map
                               /\ \A i \in 1 .. Len(Unwrap(lruOp.fresh)) :
                                     Unwrap(lruOp.fresh)[i][1] # k
                            THEN Some(Append(Unwrap(lruOp.fresh), <<k, v>>)) ELSE None,
                            Some(v))

LruRemoveOp(k) ==
    LET r == LruRemove(lru, k)
    IN  /\ UNCHANGED storeVars
        /\ lru' = r.cache
        /\ lruOp' = LruHist("remove", k, lru, r.cache,
                            SelectSeq(lruOp.recency, LAMBDA x : x # k),
                            None, r.value)

LruClearOp ==
    /\ UNCHANGED storeVars
    /\ lru' = LruClear(lru)
    /\ lruOp' = LruHist("clear", 0, lru, lru', <<>>, None, None)

NextLru ==
    \/ \E k \in LruKeys : LruGetOp(k)
    \/ \E k \in LruKeys, v \in LruValues : LruPutOp(k, v)
    \/ \E k \in LruKeys : LruRemoveOp(k)
    \/ LruClearOp

vars == <<lru, lruOp, store, thr, sh, frontVars>>

SpecLru == InitLru /\ [][NextLru]_vars

(***************************************************************************)
(* SpecStore: one ToonStore, created fresh, called from Threads threads.   *)
(* Every step is one critical section of the source: put and delete run    *)
(* under the write locks they take, get is an index lookup (read lock)     *)
(* followed by a file read (data file lock), and a scan is a sequence of   *)
(* slot checks and gets.  close takes &mut self, so it runs only while no  *)
(* other call is in progress; open after close builds a new handle over    *)
(* the same files.                                                         *)
(*                                                                         *)
(* sh is history: puts (the <<row id, line>> of every successful put, in   *)
(* order), deleted (the ids whose delete returned Ok), snap (what len()    *)
(* and get(id) answered when close began, kept until the next successful   *)
(* put or delete) and opens ("none" until the store is first reopened,     *)
(* then the outcome of the latest open: "ok" or "failed").  A thread in a  *)
(* scan carries late = "a delete of the row had returned Ok before the     *)
(* iterator looked at its slot".                                           *)
(***************************************************************************)
NThreads == 2

Threads == 1 .. NThreads

(* Row ids callers ask for: every id the data file can hold, and one more. *)
RowIds == 0 .. (MAX_DB_SIZE - Len(create_header(1, 0)))

Idle == [pc |-> "idle", id |-> 0, off |-> 0, cur |-> 0, total |-> 0, late |-> FALSE]

AllIdle == \A t \in Threads : thr[t].pc = "idle"

lruVars == <<lru, lruOp, frontVars>>

InitStore ==
    /\ store = create_new
    /\ thr = [t \in Threads |-> Idle]
    /\ sh = [puts |-> <<>>, deleted |-> {}, snap |-> None, opens |-> "none"]
    /\ lru = LruNew(1)
    /\ lruOp = <<>>
    /\ key_map = EmptyMap
    /\ keymap_file = <<>>
    /\ session = <<>>
    /\ auth_config = <<>>
    /\ user_manager = <<>>
    /\ buffer = <<>>
    /\ wire = <<>>
    /\ rx = <<>>
    /\ stats = <<>>

PutOp(t, line) ==
    LET r == StorePut(store, line)
    IN  /\ thr[t].pc = "idle"
        /\ store' = r.store
        /\ sh' = [sh EXCEPT
                    !.puts = IF r.res.err = "Ok" THEN Append(@, <<r.res.val[1], line>>) ELSE @,
                    !.snap = IF r.res.err = "Ok" THEN None ELSE @]
        /\ UNCHANGED <<thr, lruVars>>

(* ToonStore::get up to drop(index); a failed lookup is the whole call. *)
GetBegin(t, row_id) ==
    LET r == GetLookup(store, row_id)
    IN  /\ thr[t].pc = "idle"
        /\ thr' = IF r.err = "Ok"
                  THEN [thr EXCEPT ![t] = [Idle EXCEPT !.pc = "get_read", !.id = row_id,
                                                       !.off = r.val[1]]]
                  ELSE thr
        /\ UNCHANGED <<store, sh, lruVars>>

(* ToonStore::get from self.data_file.write() on: the call returns
   ReadLine(store.data_file, thr[t].off). *)
GetEnd(t) ==
    /\ thr[t].pc = "get_read"
    /\ thr' = [thr EXCEPT ![t] = Idle]
    /\ UNCHANGED <<store, sh, lruVars>>

DeleteOp(t, row_id) ==
    LET r == StoreDelete(store, row_id)
    IN  /\ thr[t].pc = "idle"
        /\ store' = r.store
        /\ sh' = [sh EXCEPT
                    !.deleted = IF r.res.err = "Ok" THEN @ \cup {row_id} ELSE @,
                    !.snap = IF r.res.err = "Ok" THEN None ELSE @]
        /\ UNCHANGED <<thr, lruVars>>

(* ToonStore::scan: the iterator is created with total = index.len(). *)
ScanBegin(t) ==
    /\ thr[t].pc = "idle"
    /\ thr' = [thr EXCEPT ![t] = [Idle EXCEPT !.pc = "scan_check",
                                              !.total = Len(store.index)]]
    /\ UNCHANGED <<store, sh, lruVars>>

(* ScanIterator::next, one turn of the while loop up to the call of get;
   when current reaches total the iterator ends. *)
ScanCheck(t) ==
    /\ thr[t].pc = "scan_check"
    /\ thr' = IF thr[t].cur < thr[t].total
              THEN [thr EXCEPT ![t] =
                      IF IsSome(store.index[thr[t].cur + 1])
                      THEN [@ EXCEPT !.cur = @ + 1, !.id = thr[t].cur, !.pc = "scan_lookup",
                                     !.late = thr[t].cur \in sh.deleted]
                      ELSE [@ EXCEPT !.cur = @ + 1]]
              ELSE [thr EXCEPT ![t] = Idle]
    /\ UNCHANGED <<store, sh, lruVars>>

(* ScanIterator::next, self.store.get(row_id): the index lookup; when it
   fails the iterator yields the error. *)
ScanLookup(t) ==
    LET r == GetLookup(store, thr[t].id)
    IN  /\ thr[t].pc = "scan_lookup"
        /\ thr' = IF r.err = "Ok"
                  THEN [thr EXCEPT ![t] = [@ EXCEPT !.pc = "scan_read", !.off = r.val[1]]]
                  ELSE [thr EXCEPT ![t] = [@ EXCEPT !.pc = "scan_check", !.id = 0,
                                                    !.late = FALSE]]
        /\ UNCHANGED <<store, sh, lruVars>>

(* ScanIterator::next, self.store.get(row_id): the file read; the iterator
   yields (thr[t].id, ReadLine(store.data_file, thr[t].off)). *)
ScanRead(t) ==
    /\ thr[t].pc = "scan_read"
    /\ thr' = [thr EXCEPT ![t] = [@ EXCEPT !.pc = "scan_check", !.id = 0, !.off = 0,
                                            !.late = FALSE]]
    /\ UNCHANGED <<store, sh, lruVars>>

(* What len() and every get(id) answer on the handle st. *)
Snapshot(st) ==
    [len |-> StoreLen(st), get |-> [i \in 1 .. Len(st.index) |-> StoreGet(st, i - 1)]]

CloseOp ==
    /\ AllIdle
    /\ store' = StoreClose(store)
    /\ sh' = [sh EXCEPT !.snap = IF store.closed THEN @ ELSE Some(Snapshot(store))]
    /\ UNCHANGED <<thr, lruVars>>

(* ToonStore::open on the directory of a closed store. *)
ReopenOp ==
    LET r == open_existing(store.data_file, store.idx_file)
    IN  /\ AllIdle
        /\ store.closed
        /\ store' = IF r.err = "Ok" THEN r.val[1] ELSE store
        /\ sh' = [sh EXCEPT !.opens = IF r.err = "Ok" THEN "ok" ELSE "failed"]
        /\ UNCHANGED <<thr, lruVars>>

NextStore ==
    \/ \E t \in Threads, line \in Lines : PutOp(t, line)
    \/ \E t \in Threads, row_id \in RowIds : GetBegin(t, row_id)
    \/ \E t \in Threads : GetEnd(t)
    \/ \E t \in Threads, row_id \in RowIds : DeleteOp(t, row_id)
    \/ \E t \in Threads : ScanBegin(t)
    \/ \E t \in Threads : ScanCheck(t)
    \/ \E t \in Threads : ScanLookup(t)
    \/ \E t \in Threads : ScanRead(t)
    \/ CloseOp
    \/ ReopenOp

SpecStore == InitStore /\ [][NextStore]_vars

(***************************************************************************)
(* ToonCache (crates/tooncache/src/cache.rs): a ToonStore with an LruCache *)
(* of row id -> line in front of it.                                       *)
(***************************************************************************)

(* ToonCache::put: store.put, then cache.put(row_id, line) when it succeeded. *)
CachePut(st, c, line) ==
    LET r == StorePut(st, line)
    IN  IF r.res.err # "Ok" THEN [store |-> st, cache |-> c, res |-> r.res]
        ELSE [store |-> r.store, cache |-> LruPut(c, r.res.val[1], line), res |-> r.res]

(* ToonCache::get run without interruption: a hit answers from the cache, a
   miss reads the store and caches what it read. *)
CacheGet(st, c, row_id) ==
    LET h == LruGet(c, row_id)
        g == StoreGet(st, row_id)
    IN  IF IsSome(h.value) THEN [cache |-> h.cache, res |-> Ok(Unwrap(h.value))]
        ELSE IF g.err # "Ok" THEN [cache |-> h.cache, res |-> g]
        ELSE [cache |-> LruPut(h.cache, row_id, g.val), res |-> g]

(* ToonCache::delete: cache.remove, then store.delete, whose result it returns. *)
CacheDelete(st, c, row_id) ==
    [store |-> StoreDelete(st, row_id).store,
     cache |-> LruRemove(c, row_id).cache,
     res |-> StoreDelete(st, row_id).res]

(* A bug clear_cache could have: leaving the entries in the cache. *)
clear_cache_keep(c) == c

(* ToonCache::clear_cache *)
clear_cache(c) == LruClear(c)

(***************************************************************************)
(* The key directory file keymap.txt: one line "key<TAB>row_id" per key.   *)
(* Keys are byte strings (ASCII in the model, so from_utf8 succeeds).      *)
(***************************************************************************)
TAB == 9

CR == 13

Keys == {<<97>>, <<98>>}

(* `{}` of a u64: its decimal digits. *)
RECURSIVE FormatU64(_)
FormatU64(n) == IF n < 10 THEN <<48 + n>> ELSE FormatU64(n \div 10) \o <<48 + (n % 10)>>

(* str::parse::<u64>: an optional '+' and at least one digit; None when it
   fails. *)
RECURSIVE ParseDigits(_, _)
ParseDigits(b, acc) ==
    IF Len(b) = 0 THEN Some(acc)
    ELSE IF b[1] < 48 \/ b[1] > 57 THEN None
    ELSE ParseDigits(Tail(b), 10 * acc + (b[1] - 48))

ParseU64(b) ==
    LET digits == IF Len(b) > 0 /\ b[1] = 43 THEN Tail(b) ELSE b
    IN  IF Len(digits) = 0 THEN None ELSE ParseDigits(digits, 0)

(* str::split(sep): the pieces of b between occurrences of sep. *)
RECURSIVE Split(_, _)
Split(b, sep) ==
    LET at == {i \in 1 .. Len(b) : b[i] = sep}
        first == CHOOSE i \in at : \A j \in at : i <= j
    IN  IF at = {} THEN <<b>>
        ELSE <<SubSeq(b, 1, first - 1)>> \o Split(SubSeq(b, first + 1, Len(b)), sep)

(* BufRead::lines: the pieces between newlines, without the empty piece
   after a final newline and without a carriage return before a newline. *)
FileLines(file) ==
    LET pieces == Split(file, NL)
        kept == IF Len(pieces[Len(pieces)]) = 0
                THEN SubSeq(pieces, 1, Len(pieces) - 1) ELSE pieces
    IN  [i \in 1 .. Len(kept) |->
            IF Len(kept[i]) > 0 /\ kept[i][Len(kept[i])] = CR
            THEN SubSeq(kept[i], 1, Len(kept[i]) - 1) ELSE kept[i]]

(* CommandHandler::load_keymap, the loop over the first n lines. *)
RECURSIVE LoadLines(_, _)
LoadLines(lines, n) ==
    IF n = 0 THEN EmptyMap
    ELSE LET parts == Split(lines[n], TAB)
             map == LoadLines(lines, n - 1)
         IN  IF Len(parts) = 2 /\ IsSome(ParseU64(parts[2]))
             THEN MapInsert(map, parts[1], Unwrap(ParseU64(parts[2])))
             ELSE map

(* CommandHandler::load_keymap; a missing file reads as an empty one. *)
load_keymap(file) == LoadLines(FileLines(file), Len(FileLines(file)))

(* The orders in which a HashMap may iterate over its keys. *)
IterOrders(map) ==
    {o \in [1 .. Cardinality(DOMAIN map) -> DOMAIN map] :
        \A i, j \in 1 .. Cardinality(DOMAIN map) : o[i] = o[j] => i = j}

(* CommandHandler::save_keymap, the bytes written for the keys order[1..n]. *)
RECURSIVE SaveLines(_, _, _)
SaveLines(map, order, n) ==
    IF n = 0 THEN <<>>
    ELSE SaveLines(map, order, n - 1)
         \o order[n] \o <<TAB>> \o FormatU64(map[order[n]]) \o <<NL>>

(* CommandHandler::save_keymap: the file is truncated and rewritten. *)
save_keymap(map, order) == SaveLines(map, order, Len(order))

(* JSON whitespace: space, tab, line feed, carriage return. *)
JsonWs == {32, TAB, NL, CR}

(* The first position from i on that holds no JSON whitespace. *)
RECURSIVE SkipWs(_, _)
SkipWs(d, i) == IF i <= Len(d) /\ d[i] \in JsonWs THEN SkipWs(d, i + 1) ELSE i

(* Byte i of d, or -1 past its end. *)
ByteAt(d, i) == IF i >= 1 /\ i <= Len(d) THEN d[i] ELSE -1

(* The position of the quote that closes the string whose text starts at
   i, or 0 when a control byte, an escape or the end of d comes first. *)
RECURSIVE StringEnd(_, _)
StringEnd(d, i) ==
    IF i > Len(d) \/ d[i] < 32 \/ d[i] = 92 THEN 0
    ELSE IF d[i] = 34 THEN i
    ELSE StringEnd(d, i + 1)

(* rebuild_keymap, `serde_json::from_str(..)`, `value.get("id")` and
   `id.as_str()`: Some(the string) when the record is a JSON object whose
   member "id" is a string.  serde_json is a library outside this
   repository; the operator follows the JSON grammar for the records the
   model stores: objects with one member whose value is a string without
   escapes, with any whitespace between the tokens.  Every other record of
   the model (a bare word, an object without "id", an "id" that is a
   number, a record cut off before its closing brace) gives None. *)
JsonId(data) ==
    LET open == SkipWs(data, 1)
        key == SkipWs(data, open + 1)
        colon == SkipWs(data, key + 4)
        quote == SkipWs(data, colon + 1)
        close == StringEnd(data, quote + 1)
        brace == SkipWs(data, close + 1)
    IN  IF /\ ByteAt(data, open) = 123
           /\ key + 3 <= Len(data)
           /\ SubSeq(data, key, key + 3) = <<34, 105, 100, 34>>
           /\ ByteAt(data, colon) = 58
           /\ ByteAt(data, quote) = 34
           /\ close > 0
           /\ ByteAt(data, brace) = 125
           /\ SkipWs(data, brace + 1) > Len(data)
        THEN Some(SubSeq(data, quote + 1, close - 1))
        ELSE None

(* CommandHandler::rebuild_keymap, over the rows below n. *)
RECURSIVE RebuildRows(_, _)
RebuildRows(st, n) ==
    IF n = 0 THEN EmptyMap
    ELSE LET map == RebuildRows(st, n - 1)
             got == StoreGet(st, n - 1)
         IN  IF got.err = "Ok" /\ IsSome(JsonId(got.val))
             THEN MapInsert(map, Unwrap(JsonId(got.val)), n - 1)
             ELSE map

rebuild_keymap(st) == RebuildRows(st, Len(st.index))

(***************************************************************************)
(* RESP replies.  Every reply is a record of the same shape: t is the kind *)
(* ("simple", "error", "bulk", "nil", "int"; "none" before any reply), s   *)
(* the text of a simple string or the first word of an error, b the bytes  *)
(* of a bulk string, n the integer.                                        *)
(***************************************************************************)
NoReply == [t |-> "none", s |-> "", b |-> <<>>, n |-> 0]

SimpleString(s) == [t |-> "simple", s |-> s, b |-> <<>>, n |-> 0]

Error(s) == [t |-> "error", s |-> s, b |-> <<>>, n |-> 0]

BulkString(b) == [t |-> "bulk", s |-> "", b |-> b, n |-> 0]

NilBulk == [t |-> "nil", s |-> "", b |-> <<>>, n |-> 0]

Integer(n) == [t |-> "int", s |-> "", b |-> <<>>, n |-> n]

(***************************************************************************)
(* Authentication (crates/tstd/src/auth.rs, users.rs)                      *)
(***************************************************************************)

(* bcrypt::hash and bcrypt::verify: a hash verifies exactly the password
   it was made from. *)
Hash(password) == <<"bcrypt", password>>

Verify(password, hash) == hash = Hash(password)

(* AuthConfig::disabled *)
AuthDisabled == [password_hash |-> None, required |-> FALSE]

(* AuthConfig::from_password *)
AuthFromPassword(password) ==
    IF password = "" THEN AuthDisabled
    ELSE [password_hash |-> Some(Hash(password)), required |-> TRUE]

(* AuthConfig::verify *)
AuthVerify(cfg, password) ==
    IF IsSome(cfg.password_hash) THEN Verify(password, Unwrap(cfg.password_hash))
    ELSE TRUE

(* SessionState::new *)
SessionNew(auth_required) ==
    [authenticated |-> ~auth_required,
     username |-> IF ~auth_required THEN Some("default") ELSE None,
     user_role |-> IF ~auth_required THEN Some("Admin") ELSE None]

(* SessionState::authenticate *)
SessionAuthenticate(s, username, role) ==
    [s EXCEPT !.authenticated = TRUE, !.username = Some(username), !.user_role = Some(role)]

(* A bug can_execute could have: ReadWrite allowed to flush the database. *)
RoleCanExecute_flush(role, command) ==
    CASE role = "Admin" -> TRUE
      [] role = "ReadWrite" -> command \notin {"FLUSHALL", "USER", "ACL", "CONFIG"}
      [] role = "ReadOnly" -> command \in {"GET", "MGET", "EXISTS", "KEYS", "DBSIZE",
                                           "INFO", "PING", "ECHO"}

(* UserRole::can_execute *)
RoleCanExecute(role, command) ==
    CASE role = "Admin" -> TRUE
      [] role = "ReadWrite" -> command \notin {"FLUSHDB", "FLUSHALL", "USER", "ACL", "CONFIG"}
      [] role = "ReadOnly" -> command \in {"GET", "MGET", "EXISTS", "KEYS", "DBSIZE",
                                           "INFO", "PING", "ECHO"}

(* SessionState::can_execute *)
SessionCanExecute(s, command) ==
    IF IsSome(s.user_role) THEN RoleCanExecute(Unwrap(s.user_role), command) ELSE FALSE

(* A bug handle could have: no authentication check. *)
NoAuthGate_open(cfg, s) == FALSE

(* CommandHandler::handle, `self.auth_config.is_required() &&
   !session.is_authenticated()` *)
NoAuthGate(cfg, s) == cfg.required /\ ~s.authenticated

(* CommandHandler::handle between the AUTH test and the dispatch: Some(the
   error the command is refused with) or None when it goes to its handler. *)
Refusal(cfg, s, command) ==
    IF NoAuthGate(cfg, s) THEN Some(Error("NOAUTH"))
    ELSE IF ~SessionCanExecute(s, command) THEN Some(Error("NOPERM"))
    ELSE None

(* User::new *)
UserNew(username, password, role) ==
    [username |-> username, password_hash |-> Hash(password), role |-> role,
     active |-> TRUE]

(* UserManager::new on a data directory without users.json: the table with
   the default account admin/admin. *)
UserManagerNew == MapInsert(EmptyMap, "admin", UserNew("admin", "admin", "Admin"))

(* UserManager::create_user: the table afterwards and whether it succeeded. *)
create_user(users, username, password, role) ==
    IF username \in DOMAIN users THEN [users |-> users, ok |-> FALSE]
    ELSE [users |-> MapInsert(users, username, UserNew(username, password, role)),
          ok |-> TRUE]

(* UserManager::authenticate: Some(user) or None. *)
UserAuthenticate(users, username, password) ==
    IF username \in DOMAIN users
       /\ users[username].active
       /\ Verify(password, users[username].password_hash)
    THEN Some(users[username]) ELSE None

(* UserManager::delete_user *)
delete_user(users, username) ==
    IF username = "admin" THEN [users |-> users, ok |-> FALSE]
    ELSE IF username \notin DOMAIN users THEN [users |-> users, ok |-> FALSE]
    ELSE [users |-> MapRemove(users, username), ok |-> TRUE]

(* UserManager::change_password *)
change_password(users, username, new_password) ==
    IF username \notin DOMAIN users THEN [users |-> users, ok |-> FALSE]
    ELSE [users |-> [users EXCEPT ![username].password_hash = Hash(new_password)],
          ok |-> TRUE]

(* A bug handle_auth could have: a failed AUTH logging the session out. *)
AuthFailed_logout(s) == SessionNew(TRUE)

(* handle_auth on every path that does not reach session.authenticate: the
   session is not written. *)
AuthFailed(s) == s

(* CommandHandler::handle_auth: the session afterwards and the reply.  um is
   self.user_manager; the arguments are bulk strings of valid UTF-8. *)
handle_auth(cfg, um, s, args) ==
    IF Len(args) = 0 \/ Len(args) > 2
    THEN [session |-> AuthFailed(s), reply |-> Error("ERR")]
    ELSE IF IsSome(um)
         THEN LET username == IF Len(args) = 2 THEN args[1] ELSE "admin"
                  password == args[Len(args)]
                  user == UserAuthenticate(Unwrap(um), username, password)
              IN  IF IsSome(user)
                  THEN [session |-> SessionAuthenticate(s, Unwrap(user).username,
                                                        Unwrap(user).role),
                        reply |-> SimpleString("OK")]
                  ELSE [session |-> AuthFailed(s), reply |-> Error("WRONGPASS")]
    ELSE IF Len(args) # 1 THEN [session |-> AuthFailed(s), reply |-> Error("ERR")]
    ELSE IF ~cfg.required THEN [session |-> AuthFailed(s), reply |-> Error("ERR")]
    ELSE IF AuthVerify(cfg, args[1])
         THEN [session |-> SessionAuthenticate(s, "default", "Admin"),
               reply |-> SimpleString("OK")]
    ELSE [session |-> AuthFailed(s), reply |-> Error("WRONGPASS")]

(* handle_user, the role named by the fourth argument of USER CREATE:
   Some(role), or None for a name that is no role. *)
ParseRole(r) ==
    CASE r = "ADMIN" -> Some("Admin")
      [] r = "READWRITE" -> Some("ReadWrite")
      [] r = "READONLY" -> Some("ReadOnly")
      [] OTHER -> None

(* CommandHandler::handle_user for the subcommands that write the user
   table (CREATE, DELETE, SETPASS): the user manager afterwards and the
   reply.  Any other first argument is answered as an unknown subcommand. *)
handle_user(um, args) ==
    LET users == Unwrap(um)
        fail == [um |-> um, reply |-> Error("ERR")]
        done(r) == IF r.ok THEN [um |-> Some(r.users), reply |-> SimpleString("OK")]
                   ELSE fail
    IN  IF ~IsSome(um) THEN fail
        ELSE IF Len(args) = 0 THEN fail
        ELSE IF args[1] = "CREATE"
             THEN IF Len(args) < 3 THEN fail
                  ELSE IF Len(args) > 3
                       THEN IF IsSome(ParseRole(args[4]))
                            THEN done(create_user(users, args[2], args[3],
                                                  Unwrap(ParseRole(args[4]))))
                            ELSE fail
                  ELSE done(create_user(users, args[2], args[3], "ReadWrite"))
        ELSE IF args[1] = "DELETE"
             THEN IF Len(args) # 2 THEN fail ELSE done(delete_user(users, args[2]))
        ELSE IF args[1] = "SETPASS"
             THEN IF Len(args) # 3 THEN fail
                  ELSE done(change_password(users, args[2], args[3]))
        ELSE fail

(***************************************************************************)
(* SpecFront: the daemon (crates/tstd): one CommandHandler over a ToonCache *)
(* over a ToonStore in a fresh data directory, serving the connections in  *)
(* Threads, each with its own SessionState.  A step is one critical        *)
(* section of a command: what it does between taking and releasing the     *)
(* key_map lock, then what follows (save_keymap, clear_cache, the cache    *)
(* fill of a GET that missed).  A GET holds the key_map read lock until it *)
(* returns, so SET, DEL and FLUSHDB wait while a GET is between its two    *)
(* steps.  The daemon never closes the store: it runs until the process is *)
(* killed (Crash), and the next start opens the files as they were left.   *)
(*                                                                         *)
(* thr[t] is what connection t is in the middle of.  sh is history:        *)
(*   ev        when the last step was handle refusing a command or         *)
(*             answering AUTH: the connection, the command name and the    *)
(*             reply; NoEv otherwise                                       *)
(*   acked     per key, Some(v) once a SET k v has replied OK to a         *)
(*             connection of the running process and no SET k, DEL k or    *)
(*             FLUSHDB has been processed since that SET took effect       *)
(*   last_set  per key, Some(v) for the latest SET k v whose put succeeded *)
(***************************************************************************)
MaxCacheCapacity == 2

Secret == "admin"

Values == {<<97>>, <<NL>>}

AuthArgs == {<<Secret>>, <<"guess">>, <<"default", Secret>>}

DelArgs == UNION {[1 .. n -> Keys] : n \in 1 .. 2}

Commands == {"PING", "GET", "SET", "DEL", "EXISTS", "DBSIZE", "FLUSHDB"}

(* The other command names handle knows, and one it does not. *)
OtherCommands ==
    {"ECHO", "MGET", "KEYS", "INFO", "COMMAND", "SAVE", "BGSAVE", "BGREWRITEAOF",
     "BACKUP", "RESTORE", "LASTSAVE", "USER", "QUIT", "NOSUCH"}

ConnIdle == [pc |-> "idle", key |-> <<>>, id |-> 0, val |-> <<>>, live |-> FALSE, n |-> 0]

Ev(t, cmd, reply) == [conn |-> t, cmd |-> cmd, reply |-> reply]

NoEv == Ev(0, "", NoReply)

InitFront ==
    /\ store = create_new
    /\ \E capacity \in 1 .. MaxCacheCapacity : lru = LruNew(capacity)
    /\ lruOp = <<>>
    /\ key_map = EmptyMap
    /\ keymap_file = <<>>
    /\ auth_config = AuthFromPassword("")
    /\ user_manager = None
    /\ buffer = <<>>
    /\ wire = <<>>
    /\ rx = <<>>
    /\ stats = <<>>
    /\ session = [t \in Threads |-> SessionNew(auth_config.required)]
    /\ thr = [t \in Threads |-> ConnIdle]
    /\ sh = [ev |-> NoEv, acked |-> [k \in Keys |-> None],
             last_set |-> [k \in Keys |-> None]]

(* The daemon started with --password. *)
InitGate ==
    /\ store = create_new
    /\ lru = LruNew(1)
    /\ lruOp = <<>>
    /\ key_map = EmptyMap
    /\ keymap_file = <<>>
    /\ auth_config = AuthFromPassword(Secret)
    /\ user_manager = None
    /\ buffer = <<>>
    /\ wire = <<>>
    /\ rx = <<>>
    /\ stats = <<>>
    /\ session = [t \in Threads |-> SessionNew(auth_config.required)]
    /\ thr = [t \in Threads |-> ConnIdle]
    /\ sh = [ev |-> NoEv, acked |-> [k \in Keys |-> None],
             last_set |-> [k \in Keys |-> None]]

(* Connection t is between commands and handle lets `command` through. *)
Accepted(t, command) ==
    /\ thr[t].pc = "idle"
    /\ ~IsSome(Refusal(auth_config, session[t], command))

(* The steps in which a connection holds key_map.read(): a GET between its
   lookup and its cache fill, and (SpecSave) a save_keymap between opening
   the file and flushing its writer. *)
ReadLocked == {"get_fill", "set_write", "del_write", "flush_write"}

(* key_map.write() is granted: no connection holds the read lock. *)
NoReaders == \A u \in Threads : thr[u].pc \notin ReadLocked

(* History: a SET, DEL or FLUSHDB on the keys ks has been processed, so a
   SET of one of them that has not replied yet is no longer the latest, and
   a FLUSHDB that has not replied yet is no longer the latest writer. *)
Superseded(ks) ==
    [u \in Threads |->
        IF \/ thr[u].pc = "set_save" /\ thr[u].key \in ks
           \/ thr[u].pc \in {"flush_cache", "flush_save"}
        THEN [thr[u] EXCEPT !.live = FALSE] ELSE thr[u]]

Unacked(ks) == [k \in Keys |-> IF k \in ks THEN None ELSE sh.acked[k]]

(* handle: a command other than AUTH refused with NOAUTH or NOPERM. *)
HandleRefuse(t, command) ==
    /\ thr[t].pc = "idle"
    /\ IsSome(Refusal(auth_config, session[t], command))
    /\ sh' = [sh EXCEPT !.ev = Ev(t, command,
                                  Unwrap(Refusal(auth_config, session[t], command)))]
    /\ UNCHANGED <<store, lru, lruOp, thr, frontVars>>

(* handle -> handle_auth *)
HandleAuth(t, args) ==
    LET r == handle_auth(auth_config, user_manager, session[t], args)
    IN  /\ thr[t].pc = "idle"
        /\ session' = [session EXCEPT ![t] = r.session]
        /\ sh' = [sh EXCEPT !.ev = Ev(t, "AUTH", r.reply)]
        /\ UNCHANGED <<store, lru, lruOp, thr, key_map, keymap_file, auth_config, user_manager, respVars, stats>>

(* handle_ping with no argument *)
handle_ping == SimpleString("PONG")

(* handle_dbsize *)
handle_dbsize(map) == Integer(Cardinality(DOMAIN map))

(* handle_exists with one key *)
handle_exists(map, k) == Integer(IF k \in DOMAIN map THEN 1 ELSE 0)

(* handle_get run without interruption: the cache afterwards and the reply. *)
handle_get(map, st, c, k) ==
    LET r == CacheGet(st, c, map[k])
    IN  IF k \notin DOMAIN map THEN [cache |-> c, reply |-> NilBulk]
        ELSE IF r.res.err = "Ok" THEN [cache |-> r.cache, reply |-> BulkString(r.res.val)]
        ELSE [cache |-> r.cache, reply |-> NilBulk]

(* handle -> handle_ping, handle_dbsize or handle_exists: the reply is
   handle_ping, handle_dbsize(key_map) or handle_exists(key_map, k), and
   nothing is written. *)
HandleRead(t, command) ==
    /\ Accepted(t, command)
    /\ sh' = [sh EXCEPT !.ev = NoEv]
    /\ UNCHANGED <<store, lru, lruOp, thr, frontVars>>

(* handle -> handle_get: key_map.read(), the lookup, cache.get up to the
   read of the store.  It returns here, with the reply of handle_get, when
   the key is unknown, on a cache hit and when the store has no such row. *)
HandleGet(t, k) ==
    LET row_id == key_map[k]
        h == LruGet(lru, row_id)
        g == StoreGet(store, row_id)
    IN  /\ Accepted(t, "GET")
        /\ IF k \notin DOMAIN key_map THEN UNCHANGED <<lru, thr>>
           ELSE IF IsSome(h.value) THEN lru' = h.cache /\ UNCHANGED thr
           ELSE IF g.err # "Ok" THEN UNCHANGED <<lru, thr>>
           ELSE /\ thr' = [thr EXCEPT ![t] = [ConnIdle EXCEPT !.pc = "get_fill", !.key = k,
                                                !.id = row_id, !.val = g.val]]
                /\ UNCHANGED lru
        /\ sh' = [sh EXCEPT !.ev = NoEv]
        /\ UNCHANGED <<store, lruOp, frontVars>>

(* handle_get, the rest of cache.get after a miss: cache.put(row_id, value);
   the reply is the bulk string thr[t].val. *)
HandleGetFill(t) ==
    /\ thr[t].pc = "get_fill"
    /\ lru' = LruPut(lru, thr[t].id, thr[t].val)
    /\ sh' = [sh EXCEPT !.ev = NoEv]
    /\ thr' = [thr EXCEPT ![t] = ConnIdle]
    /\ UNCHANGED <<store, lruOp, frontVars>>

(* A bug handle_set could have: leaving the row the key had in place. *)
SetDeleteOld_skip(map, st, c, k) == [store |-> st, cache |-> c, res |-> Ok(<<>>)]

(* handle_set, `if let Some(&existing_row_id) = key_map.get(&key)`: the
   cache.delete of the row the key had, its result ignored. *)
SetDeleteOld(map, st, c, k) ==
    IF k \in DOMAIN map THEN CacheDelete(st, c, map[k])
    ELSE [store |-> st, cache |-> c, res |-> Ok(<<>>)]

(* handle -> handle_set under key_map.write(): cache.delete of the row the
   key had, cache.put of the value, key_map.insert when put succeeded; a
   failed put is answered at once with an error.  Until the reply,
   thr[t] keeps existing_row_id in id, with n = 1 when the key had a row. *)
HandleSet(t, k, v) ==
    LET d == SetDeleteOld(key_map, store, lru, k)
        p == CachePut(d.store, d.cache, v)
    IN  /\ Accepted(t, "SET")
        /\ NoReaders
        /\ store' = p.store
        /\ lru' = p.cache
        /\ IF p.res.err = "Ok"
           THEN /\ key_map' = MapInsert(key_map, k, p.res.val[1])
                /\ thr' = [Superseded({k}) EXCEPT
                             ![t] = [ConnIdle EXCEPT
                                       !.pc = "set_save", !.key = k, !.val = v,
                                       !.live = TRUE,
                                       !.id = IF k \in DOMAIN key_map THEN key_map[k] ELSE 0,
                                       !.n = IF k \in DOMAIN key_map THEN 1 ELSE 0]]
                /\ sh' = [sh EXCEPT !.ev = NoEv, !.acked = Unacked({k}),
                                    !.last_set[k] = Some(v)]
           ELSE /\ key_map' = key_map
                /\ thr' = Superseded({k})
                /\ sh' = [sh EXCEPT !.ev = NoEv, !.acked = Unacked({k})]
        /\ UNCHANGED <<lruOp, keymap_file, session, auth_config, user_manager, respVars, stats>>

(* handle_set after drop(key_map): save_keymap and the reply OK. *)
HandleSetSave(t) ==
    /\ thr[t].pc = "set_save"
    /\ \E order \in IterOrders(key_map) : keymap_file' = save_keymap(key_map, order)
    /\ sh' = [sh EXCEPT !.ev = NoEv,
                        !.acked[thr[t].key] = IF thr[t].live THEN Some(thr[t].val) ELSE @]
    /\ thr' = [thr EXCEPT ![t] = ConnIdle]
    /\ UNCHANGED <<store, lru, lruOp, key_map, session, auth_config, user_manager, respVars, stats>>

(* handle_del, the loop over the first n arguments: key_map.remove, and
   cache.delete of the row when the key was there. *)
RECURSIVE DelLoop(_, _, _, _, _)
DelLoop(args, n, map, st, c) ==
    IF n = 0 THEN [key_map |-> map, store |-> st, cache |-> c, deleted |-> 0]
    ELSE LET r == DelLoop(args, n - 1, map, st, c)
             d == CacheDelete(r.store, r.cache, r.key_map[args[n]])
         IN  IF args[n] \in DOMAIN r.key_map
             THEN [key_map |-> MapRemove(r.key_map, args[n]), store |-> d.store,
                   cache |-> d.cache,
                   deleted |-> r.deleted + (IF d.res.err = "Ok" THEN 1 ELSE 0)]
             ELSE r

(* handle -> handle_del under key_map.write(); with nothing deleted the
   reply, the integer 0, follows at once. *)
HandleDel(t, args) ==
    LET r == DelLoop(args, Len(args), key_map, store, lru)
        ks == {args[i] : i \in 1 .. Len(args)}
    IN  /\ Accepted(t, "DEL")
        /\ NoReaders
        /\ key_map' = r.key_map
        /\ store' = r.store
        /\ lru' = r.cache
        /\ IF r.deleted > 0
           THEN thr' = [Superseded(ks) EXCEPT
                          ![t] = [ConnIdle EXCEPT !.pc = "del_save", !.n = r.deleted]]
           ELSE thr' = Superseded(ks)
        /\ sh' = [sh EXCEPT !.ev = NoEv, !.acked = Unacked(ks)]
        /\ UNCHANGED <<lruOp, keymap_file, session, auth_config, user_manager, respVars, stats>>

(* handle_del after drop(key_map): save_keymap; the reply is the integer
   thr[t].n. *)
HandleDelSave(t) ==
    /\ thr[t].pc = "del_save"
    /\ \E order \in IterOrders(key_map) : keymap_file' = save_keymap(key_map, order)
    /\ sh' = [sh EXCEPT !.ev = NoEv]
    /\ thr' = [thr EXCEPT ![t] = ConnIdle]
    /\ UNCHANGED <<store, lru, lruOp, key_map, session, auth_config, user_manager, respVars, stats>>

(* handle -> handle_flushdb under key_map.write(): key_map.clear(). *)
HandleFlushdb(t) ==
    /\ Accepted(t, "FLUSHDB")
    /\ NoReaders
    /\ key_map' = EmptyMap
    /\ thr' = [Superseded(Keys) EXCEPT
                 ![t] = [ConnIdle EXCEPT !.pc = "flush_cache", !.live = TRUE]]
    /\ sh' = [sh EXCEPT !.ev = NoEv, !.acked = Unacked(Keys)]
    /\ UNCHANGED <<store, lru, lruOp, keymap_file, session, auth_config, user_manager, respVars, stats>>

(* handle_flushdb: self.cache.clear_cache() *)
HandleFlushdbCache(t) ==
    /\ thr[t].pc = "flush_cache"
    /\ lru' = clear_cache(lru)
    /\ thr' = [thr EXCEPT ![t] = [@ EXCEPT !.pc = "flush_save"]]
    /\ sh' = [sh EXCEPT !.ev = NoEv]
    /\ UNCHANGED <<store, lruOp, frontVars>>

(* handle_flushdb: save_keymap and the reply OK. *)
HandleFlushdbSave(t) ==
    /\ thr[t].pc = "flush_save"
    /\ \E order \in IterOrders(key_map) : keymap_file' = save_keymap(key_map, order)
    /\ sh' = [sh EXCEPT !.ev = NoEv]
    /\ thr' = [thr EXCEPT ![t] = ConnIdle]
    /\ UNCHANGED <<store, lru, lruOp, key_map, session, auth_config, user_manager, respVars, stats>>

(* The process is killed and started again on the same data directory:
   ToonCache::new opens the store from its files and starts with an empty
   cache, CommandHandler::new loads keymap.txt (and rebuilds the directory
   from a scan when that gives no key), every connection is gone. *)
Crash ==
    LET opened == open_existing(store.data_file, store.idx_file)
        loaded == load_keymap(keymap_file)
        rebuilt == rebuild_keymap(opened.val[1])
    IN  /\ opened.err = "Ok"
        /\ store' = opened.val[1]
        /\ lru' = LruNew(lru.capacity)
        /\ key_map' = IF loaded = EmptyMap THEN rebuilt ELSE loaded
        /\ IF loaded = EmptyMap /\ rebuilt # EmptyMap
           THEN \E order \in IterOrders(rebuilt) : keymap_file' = save_keymap(rebuilt, order)
           ELSE keymap_file' = keymap_file
        /\ session' = [t \in Threads |-> SessionNew(auth_config.required)]
        /\ thr' = [t \in Threads |-> ConnIdle]
        /\ sh' = [sh EXCEPT !.ev = NoEv, !.acked = Unacked(Keys)]
        /\ UNCHANGED <<lruOp, auth_config, user_manager, respVars, stats>>

NextFront ==
    \/ \E t \in Threads, args \in AuthArgs : HandleAuth(t, args)
    \/ \E t \in Threads, command \in {"PING", "DBSIZE", "EXISTS"} : HandleRead(t, command)
    \/ \E t \in Threads, k \in Keys : HandleGet(t, k)
    \/ \E t \in Threads : HandleGetFill(t)
    \/ \E t \in Threads, k \in Keys, v \in Values : HandleSet(t, k, v)
    \/ \E t \in Threads : HandleSetSave(t)
    \/ \E t \in Threads, args \in DelArgs : HandleDel(t, args)
    \/ \E t \in Threads : HandleDelSave(t)
    \/ \E t \in Threads : HandleFlushdb(t)
    \/ \E t \in Threads : HandleFlushdbCache(t)
    \/ \E t \in Threads : HandleFlushdbSave(t)
    \/ Crash

SpecFront == InitFront /\ [][NextFront]_vars

NextGate ==
    \/ \E t \in Threads, command \in Commands : HandleRefuse(t, command)
    \/ NextFront

SpecGate == InitGate /\ [][NextGate]_vars

(***************************************************************************)
(* SpecAuth: the daemon in each of its three authentication modes (none,   *)
(* --password, --multi-user), with connections that close and are accepted *)
(* again and with the USER commands that write the user table.  The data   *)
(* commands are those of SpecFront over one key and one value.  The file   *)
(* users.json, rewritten after every change of the table, is not modelled. *)
(* ev also records a new connection (command "CONNECT") and the reply of   *)
(* a USER command.                                                         *)
(***************************************************************************)
AuthModes == {"none", "password", "multi"}

UserNames == {"admin", "bob"}

Passwords == {"admin", "pw"}

AuthInputs ==
    {<<>>} \cup {<<p>> : p \in Passwords} \cup {<<u, p>> : u \in UserNames, p \in Passwords}

UserArgs ==
    {<<"CREATE", "bob", "pw">>, <<"CREATE", "bob", "pw", "READONLY">>,
     <<"CREATE", "bob", "pw", "ROOT">>, <<"DELETE", "bob">>, <<"DELETE", "admin">>,
     <<"SETPASS", "admin", "pw">>}

(* Command names as clients send them. *)
RawCommands ==
    {"PING", "GET", "SET", "DEL", "EXISTS", "DBSIZE", "FLUSHDB", "USER",
     "get", "set", "flushdb", "user", "FLUSHALL", "ACL", "CONFIG", "MGET", "KEYS",
     "INFO", "ECHO"}

(* str::to_uppercase on the names of RawCommands. *)
to_uppercase(s) ==
    CASE s = "get" -> "GET"
      [] s = "set" -> "SET"
      [] s = "flushdb" -> "FLUSHDB"
      [] s = "user" -> "USER"
      [] OTHER -> s

AuthKeys == {<<97>>}

AuthValues == {<<97>>}

InitAuth ==
    /\ store = create_new
    /\ lru = LruNew(1)
    /\ lruOp = <<>>
    /\ key_map = EmptyMap
    /\ keymap_file = <<>>
    /\ \E mode \in AuthModes :
          /\ auth_config = IF mode = "password" THEN AuthFromPassword(Secret)
                           ELSE AuthDisabled
          /\ user_manager = IF mode = "multi" THEN Some(UserManagerNew) ELSE None
    /\ buffer = <<>>
    /\ wire = <<>>
    /\ rx = <<>>
    /\ stats = <<>>
    /\ session = [t \in Threads |-> SessionNew(auth_config.required)]
    /\ thr = [t \in Threads |-> ConnIdle]
    /\ sh = [ev |-> NoEv, acked |-> [k \in Keys |-> None],
             last_set |-> [k \in Keys |-> None]]

(* handle_client returns when the peer closes the connection; the accept
   loop starts handle_client for the next one with a new SessionState. *)
Reconnect(t) ==
    /\ thr[t].pc = "idle"
    /\ session' = [session EXCEPT ![t] = SessionNew(auth_config.required)]
    /\ sh' = [sh EXCEPT !.ev = Ev(t, "CONNECT", NoReply)]
    /\ UNCHANGED <<store, lru, lruOp, thr, key_map, keymap_file, auth_config, user_manager, respVars, stats>>

(* handle -> handle_user *)
HandleUser(t, args) ==
    LET r == handle_user(user_manager, args)
    IN  /\ Accepted(t, "USER")
        /\ user_manager' = r.um
        /\ sh' = [sh EXCEPT !.ev = Ev(t, "USER", r.reply)]
        /\ UNCHANGED <<store, lru, lruOp, thr, key_map, keymap_file, session, auth_config, respVars, stats>>

NextAuth ==
    \/ \E t \in Threads, raw \in RawCommands : HandleRefuse(t, to_uppercase(raw))
    \/ \E t \in Threads, args \in AuthInputs : HandleAuth(t, args)
    \/ \E t \in Threads, args \in UserArgs : HandleUser(t, args)
    \/ \E t \in Threads : Reconnect(t)
    \/ \E t \in Threads, command \in {"PING", "DBSIZE", "EXISTS"} : HandleRead(t, command)
    \/ \E t \in Threads, k \in AuthKeys : HandleGet(t, k)
    \/ \E t \in Threads : HandleGetFill(t)
    \/ \E t \in Threads, k \in AuthKeys, v \in AuthValues : HandleSet(t, k, v)
    \/ \E t \in Threads : HandleSetSave(t)
    \/ \E t \in Threads, k \in AuthKeys : HandleDel(t, <<k>>)
    \/ \E t \in Threads : HandleDelSave(t)
    \/ \E t \in Threads : HandleFlushdb(t)
    \/ \E t \in Threads : HandleFlushdbCache(t)
    \/ \E t \in Threads : HandleFlushdbSave(t)

SpecAuth == InitAuth /\ [][NextAuth]_vars

(***************************************************************************)
(* The wire codec (crates/tstd/src/resp.rs).  A RespValue of the codec is  *)
(* the record [t, b, n, a]: t the variant ("simple", "error", "int",       *)
(* "bulk", "nil" for BulkString(None), "array", "nilarray" for             *)
(* Array(None)), b the bytes of the text or of the payload, n the integer, *)
(* a the elements of an array.  Text is ASCII in the model; a byte >= 128  *)
(* on its own is not UTF-8.                                                *)
(***************************************************************************)
MAX_BULK_STRING_SIZE == 512 * 1024 * 1024

MAX_ARRAY_SIZE == 1024 * 1024

MsgSimple(b) == [t |-> "simple", b |-> b, n |-> 0, a |-> <<>>]

MsgError(b) == [t |-> "error", b |-> b, n |-> 0, a |-> <<>>]

MsgInteger(n) == [t |-> "int", b |-> <<>>, n |-> n, a |-> <<>>]

MsgBulk(b) == [t |-> "bulk", b |-> b, n |-> 0, a |-> <<>>]

MsgNilBulk == [t |-> "nil", b |-> <<>>, n |-> 0, a |-> <<>>]

MsgArray(a) == [t |-> "array", b |-> <<>>, n |-> 0, a |-> a]

MsgNilArray == [t |-> "nilarray", b |-> <<>>, n |-> 0, a |-> <<>>]

CRLF == <<CR, NL>>

(* A bug the formatting of an integer could have: the sign left out. *)
FormatI64_abs(n) == IF n < 0 THEN FormatU64(0 - n) ELSE FormatU64(n)

(* `{}` of an i64 or of a usize. *)
FormatI64(n) == IF n < 0 THEN <<45>> \o FormatU64(0 - n) ELSE FormatU64(n)

(* RespValue::serialize *)
RECURSIVE serialize(_)
RECURSIVE SerializeAll(_)
SerializeAll(arr) ==
    IF Len(arr) = 0 THEN <<>> ELSE serialize(Head(arr)) \o SerializeAll(Tail(arr))

serialize(m) ==
    CASE m.t = "simple" -> <<43>> \o m.b \o CRLF
      [] m.t = "error" -> <<45>> \o m.b \o CRLF
      [] m.t = "int" -> <<58>> \o FormatI64(m.n) \o CRLF
      [] m.t = "nil" -> <<36, 45, 49>> \o CRLF
      [] m.t = "bulk" -> <<36>> \o FormatI64(Len(m.b)) \o CRLF \o m.b \o CRLF
      [] m.t = "nilarray" -> <<42, 45, 49>> \o CRLF
      [] m.t = "array" -> <<42>> \o FormatI64(Len(m.a)) \o CRLF \o SerializeAll(m.a)

(* String::from_utf8 succeeds. *)
IsUtf8(b) == \A i \in 1 .. Len(b) : b[i] < 128

(* str::parse::<i64>: an optional sign and at least one digit; None when it
   fails.  The digit strings of the model have at most nine digits, so the
   value never overflows. *)
ParseI64(b) ==
    LET signed == Len(b) > 0 /\ b[1] \in {43, 45}
        digits == IF signed THEN Tail(b) ELSE b
        v == ParseDigits(digits, 0)
    IN  IF Len(digits) = 0 \/ ~IsSome(v) THEN None
        ELSE IF signed /\ b[1] = 45 THEN Some(0 - Unwrap(v)) ELSE v

(* The outcomes of parse_value: Ok(Some(value)) with the cursor position
   after it, Ok(None), Err. *)
PSome(v, pos) == [r |-> "Some", val |-> v, pos |-> pos]

PNone == [r |-> "None", val |-> MsgNilBulk, pos |-> 0]

PErr == [r |-> "Err", val |-> MsgNilBulk, pos |-> 0]

(* A bug read_line could have: taking a lone carriage return for the end
   of the line. *)
IsLineEnd_cr(b, i) == b[i] = CR

(* read_line, `window == b"\r\n"` for the window that starts at byte i. *)
IsLineEnd(b, i) == b[i] = CR /\ b[i + 1] = NL

(* read_line with the cursor at pos (bytes consumed so far): Some of the
   line and the position after its CRLF, or None. *)
read_line(b, pos) ==
    LET at == {i \in pos + 1 .. Len(b) - 1 : IsLineEnd(b, i)}
        first == CHOOSE i \in at : \A j \in at : i <= j
    IN  IF at = {} THEN None
        ELSE Some([line |-> SubSeq(b, pos + 1, first - 1), pos |-> first + 1])

(* A bug the size guards could have: no upper limit. *)
TooLarge_off(len, max) == len < 0

(* `let len = len as usize; if len > MAX`: a negative i64 becomes a usize
   above every limit. *)
TooLarge(len, max) == len < 0 \/ len > max

(* parse_simple_string *)
parse_simple_string(b, pos) ==
    LET l == read_line(b, pos)
    IN  IF ~IsSome(l) THEN PNone
        ELSE IF ~IsUtf8(Unwrap(l).line) THEN PErr
        ELSE PSome(MsgSimple(Unwrap(l).line), Unwrap(l).pos)

(* parse_error *)
parse_error(b, pos) ==
    LET l == read_line(b, pos)
    IN  IF ~IsSome(l) THEN PNone
        ELSE IF ~IsUtf8(Unwrap(l).line) THEN PErr
        ELSE PSome(MsgError(Unwrap(l).line), Unwrap(l).pos)

(* parse_integer *)
parse_integer(b, pos) ==
    LET l == read_line(b, pos)
    IN  IF ~IsSome(l) THEN PNone
        ELSE IF ~IsUtf8(Unwrap(l).line) \/ ~IsSome(ParseI64(Unwrap(l).line)) THEN PErr
        ELSE PSome(MsgInteger(Unwrap(ParseI64(Unwrap(l).line))), Unwrap(l).pos)

(* parse_bulk_string *)
parse_bulk_string(b, pos) ==
    LET l == read_line(b, pos)
        at == Unwrap(l).pos
        len == Unwrap(ParseI64(Unwrap(l).line))
    IN  IF ~IsSome(l) THEN PNone
        ELSE IF ~IsUtf8(Unwrap(l).line) \/ ~IsSome(ParseI64(Unwrap(l).line)) THEN PErr
        ELSE IF len = -1 THEN PSome(MsgNilBulk, at)
        ELSE IF TooLarge(len, MAX_BULK_STRING_SIZE) THEN PErr
        ELSE IF Len(b) - at < len + 2 THEN PNone
        ELSE IF b[at + len + 1] # CR \/ b[at + len + 2] # NL THEN PErr
        ELSE PSome(MsgBulk(SubSeq(b, at + 1, at + len)), at + len + 2)

RECURSIVE parse_value(_, _)
RECURSIVE parse_elements(_, _, _, _)
(* parse_array, the loop with n elements still to read and arr read so far. *)
parse_elements(b, pos, n, arr) ==
    IF n = 0 THEN PSome(MsgArray(arr), pos)
    ELSE LET e == parse_value(b, pos)
         IN  IF e.r = "Some" THEN parse_elements(b, e.pos, n - 1, Append(arr, e.val))
             ELSE e

(* parse_array *)
parse_array(b, pos) ==
    LET l == read_line(b, pos)
        len == Unwrap(ParseI64(Unwrap(l).line))
    IN  IF ~IsSome(l) THEN PNone
        ELSE IF ~IsUtf8(Unwrap(l).line) \/ ~IsSome(ParseI64(Unwrap(l).line)) THEN PErr
        ELSE IF len = -1 THEN PSome(MsgNilArray, Unwrap(l).pos)
        ELSE IF TooLarge(len, MAX_ARRAY_SIZE) THEN PErr
        ELSE parse_elements(b, Unwrap(l).pos, len, <<>>)

(* parse_value *)
parse_value(b, pos) ==
    IF pos >= Len(b) THEN PNone
    ELSE CASE b[pos + 1] = 43 -> parse_simple_string(b, pos + 1)
           [] b[pos + 1] = 45 -> parse_error(b, pos + 1)
           [] b[pos + 1] = 58 -> parse_integer(b, pos + 1)
           [] b[pos + 1] = 36 -> parse_bulk_string(b, pos + 1)
           [] b[pos + 1] = 42 -> parse_array(b, pos + 1)
           [] OTHER -> PErr

(* RespValue::parse: the outcome (r, val) and the buffer afterwards. *)
parse(buf) ==
    LET v == parse_value(buf, 0)
    IN  IF Len(buf) = 0 THEN [r |-> "None", val |-> MsgNilBulk, buf |-> buf]
        ELSE IF v.r = "Some"
             THEN [r |-> "Some", val |-> v.val, buf |-> SubSeq(buf, v.pos + 1, Len(buf))]
        ELSE [r |-> v.r, val |-> MsgNilBulk, buf |-> buf]

(***************************************************************************)
(* SpecResp: one connection of handle_client reading a byte stream.  The   *)
(* peer has sent rx.frame: the frames of one or two well-formed messages   *)
(* (rx.sent), or a frame whose length line declares more than a size guard *)
(* allows (rx.over is the number of bytes up to the end of that line, 0    *)
(* for a stream with no such line), followed by further bytes.  read_buf   *)
(* delivers the stream in pieces of any size; after each piece the inner   *)
(* loop calls parse until it answers "not ready" or fails, and a failure   *)
(* clears the buffer.  rx also holds the position in that loop (pc) and    *)
(* history: n parse calls so far, the buffer before the last one (before), *)
(* its outcome (last) and the buffer it left (after).                      *)
(***************************************************************************)
MaxText == 2

TextBytes == {97, CR, NL}

(* Text of a simple string or an error: no CRLF inside, which would end
   the frame early. *)
Texts ==
    {b \in UNION {[1 .. n -> TextBytes] : n \in 0 .. MaxText} :
        \A i \in 1 .. Len(b) - 1 : ~(b[i] = CR /\ b[i + 1] = NL)}

Payloads == UNION {[1 .. n -> TextBytes] : n \in 0 .. MaxText}

Scalars ==
    {MsgSimple(b) : b \in Texts} \cup {MsgError(b) : b \in Texts}
    \cup {MsgInteger(n) : n \in {-12, -1, 0, 7, 120}}
    \cup {MsgBulk(b) : b \in Payloads} \cup {MsgNilBulk}

Elements ==
    {MsgSimple(<<97>>), MsgError(<<>>), MsgInteger(-1), MsgBulk(<<>>), MsgBulk(CRLF),
     MsgNilBulk}

Arrays1 ==
    {MsgArray(a) : a \in UNION {[1 .. n -> Elements] : n \in 0 .. 2}} \cup {MsgNilArray}

Inner ==
    {MsgArray(<<>>), MsgNilArray, MsgArray(<<MsgBulk(<<97>>)>>),
     MsgArray(<<MsgInteger(7), MsgBulk(CRLF)>>), MsgBulk(<<NL>>), MsgSimple(<<CR>>)}

Arrays2 == {MsgArray(a) : a \in UNION {[1 .. n -> Inner] : n \in 1 .. 2}}

Messages == Scalars \cup Arrays1 \cup Arrays2

(* Messages sent back to back on one connection. *)
Pipelined ==
    {<<MsgBulk(<<97>>), MsgInteger(7)>>, <<MsgArray(<<MsgBulk(CRLF)>>), MsgSimple(<<97>>)>>,
     <<MsgNilArray, MsgNilBulk>>}

(* Bytes that follow an oversized length line. *)
Trailers == {<<>>, <<97>>, <<97, 97, CR, NL>>, <<CR, NL>>}

(* A stream of header bytes, a type byte, a declared length and a trailer:
   over is where the length line ends when the length exceeds max. *)
Declared(header, type, len, max, trailer) ==
    LET line == header \o <<type>> \o FormatI64(len) \o CRLF
    IN  [bytes |-> line \o trailer, over |-> IF len > max THEN Len(line) ELSE 0]

Streams ==
    {Declared(h, 36, len, MAX_BULK_STRING_SIZE, tr) :
        h \in {<<>>, <<42, 50>> \o CRLF \o <<58, 49>> \o CRLF},
        len \in {MAX_BULK_STRING_SIZE, MAX_BULK_STRING_SIZE + 1, 999999999},
        tr \in Trailers}
    \cup {Declared(h, 42, len, MAX_ARRAY_SIZE, tr) :
        h \in {<<>>, <<42, 49>> \o CRLF},
        len \in {MAX_ARRAY_SIZE, MAX_ARRAY_SIZE + 1, 999999999},
        tr \in Trailers}

RxInit(frame, sent, over) ==
    [pc |-> "read", frame |-> frame, sent |-> sent, over |-> over, n |-> 0,
     before |-> <<>>, last |-> [r |-> "None", val |-> MsgNilBulk], after |-> <<>>]

InitResp ==
    /\ store = create_new
    /\ thr = <<>>
    /\ sh = <<>>
    /\ lru = LruNew(1)
    /\ lruOp = <<>>
    /\ key_map = EmptyMap
    /\ keymap_file = <<>>
    /\ session = <<>>
    /\ auth_config = <<>>
    /\ user_manager = None
    /\ buffer = <<>>
    /\ stats = <<>>
    /\ \/ \E m \in Messages : wire = serialize(m) /\ rx = RxInit(wire, <<m>>, 0)
       \/ \E ms \in Pipelined : wire = SerializeAll(ms) /\ rx = RxInit(wire, ms, 0)
       \/ \E f \in Streams : wire = f.bytes /\ rx = RxInit(wire, <<>>, f.over)

notRespVars == <<lru, lruOp, store, thr, sh, key_map, keymap_file, session, auth_config,
                 user_manager, stats>>

(* handle_client: stream.read_buf(&mut buffer) appends the next n bytes. *)
ReadBuf(n) ==
    /\ rx.pc = "read"
    /\ n <= Len(wire)
    /\ buffer' = buffer \o SubSeq(wire, 1, n)
    /\ wire' = SubSeq(wire, n + 1, Len(wire))
    /\ rx' = [rx EXCEPT !.pc = "parse"]
    /\ UNCHANGED notRespVars

(* handle_client, one turn of the inner loop: RespValue::parse(&mut buffer);
   a message is handled and the loop goes on, "not ready" goes back to
   read_buf, an error clears the buffer and goes back to read_buf. *)
ParseStep ==
    LET p == parse(buffer)
    IN  /\ rx.pc = "parse"
        /\ buffer' = IF p.r = "Err" THEN <<>> ELSE p.buf
        /\ rx' = [rx EXCEPT !.pc = IF p.r = "Some" THEN "parse" ELSE "read",
                            !.n = IF @ < 2 THEN @ + 1 ELSE @,
                            !.before = buffer,
                            !.last = [r |-> p.r, val |-> p.val],
                            !.after = p.buf]
        /\ UNCHANGED <<wire, notRespVars>>

NextResp ==
    \/ \E n \in 1 .. Len(wire) : ReadBuf(n)
    \/ ParseStep

SpecResp == InitResp /\ [][NextResp]_vars

(***************************************************************************)
(* SpecCache: one ToonCache over a fresh store, called from Threads        *)
(* threads.  A step is one critical section: put is store.put and then,    *)
(* under cache.write(), cache.put and record_insert; get is the cache      *)
(* lookup under cache.write() (a hit records itself and returns), then     *)
(* record_miss and store.get, then cache.put under cache.write(); delete   *)
(* holds cache.write() over cache.remove and store.delete; clear_cache     *)
(* holds it over cache.clear and stats.reset.  sh is history: gets, the    *)
(* number of get calls issued, and deleted, the ids whose delete returned  *)
(* Ok.                                                                     *)
(***************************************************************************)
MaxGets == 3

CacheLines == {<<97>>, <<97, 97>>}

CacheRowIds == 0 .. 2

(* CacheStats::new *)
CacheStatsNew == [hits |-> 0, misses |-> 0, evictions |-> 0, inserts |-> 0]

(* CacheStats::reset *)
StatsReset(st) == [hits |-> 0, misses |-> 0, evictions |-> 0, inserts |-> 0]

CallIdle == [pc |-> "idle", id |-> 0, val |-> <<>>]

cacheOther == <<lruOp, key_map, keymap_file, session, auth_config, user_manager, respVars>>

InitCache ==
    /\ store = create_new
    /\ \E capacity \in 1 .. MaxCacheCapacity : lru = LruNew(capacity)
    /\ stats = CacheStatsNew
    /\ thr = [t \in Threads |-> CallIdle]
    /\ sh = [gets |-> 0, deleted |-> {}]
    /\ lruOp = <<>>
    /\ key_map = EmptyMap
    /\ keymap_file = <<>>
    /\ session = <<>>
    /\ auth_config = <<>>
    /\ user_manager = None
    /\ buffer = <<>>
    /\ wire = <<>>
    /\ rx = <<>>

(* ToonCache::put, self.store.put(line)?: an error returns at once. *)
CPut(t, line) ==
    LET r == StorePut(store, line)
    IN  /\ thr[t].pc = "idle"
        /\ store' = r.store
        /\ thr' = IF r.res.err = "Ok"
                  THEN [thr EXCEPT ![t] = [pc |-> "put_cache", id |-> r.res.val[1],
                                           val |-> line]]
                  ELSE thr
        /\ UNCHANGED <<lru, stats, sh, cacheOther>>

(* ToonCache::put, cache.put(row_id, line) and record_insert. *)
CPutCache(t) ==
    /\ thr[t].pc = "put_cache"
    /\ lru' = LruPut(lru, thr[t].id, thr[t].val)
    /\ stats' = [stats EXCEPT !.inserts = @ + 1]
    /\ thr' = [thr EXCEPT ![t] = CallIdle]
    /\ UNCHANGED <<store, sh, cacheOther>>

(* ToonCache::get, the cache lookup: a hit records itself and returns the
   cached bytes. *)
CGet(t, row_id) ==
    LET h == LruGet(lru, row_id)
    IN  /\ thr[t].pc = "idle"
        /\ sh.gets < MaxGets
        /\ sh' = [sh EXCEPT !.gets = @ + 1]
        /\ lru' = h.cache
        /\ IF IsSome(h.value)
           THEN stats' = [stats EXCEPT !.hits = @ + 1] /\ UNCHANGED thr
           ELSE /\ thr' = [thr EXCEPT ![t] = [pc |-> "get_store", id |-> row_id,
                                               val |-> <<>>]]
                /\ UNCHANGED stats
        /\ UNCHANGED <<store, cacheOther>>

(* ToonCache::get after a miss: record_miss and self.store.get(row_id)?,
   whose error is the result of the call. *)
CGetStore(t) ==
    LET g == StoreGet(store, thr[t].id)
    IN  /\ thr[t].pc = "get_store"
        /\ stats' = [stats EXCEPT !.misses = @ + 1]
        /\ thr' = IF g.err = "Ok"
                  THEN [thr EXCEPT ![t] = [@ EXCEPT !.pc = "get_fill", !.val = g.val]]
                  ELSE [thr EXCEPT ![t] = CallIdle]
        /\ UNCHANGED <<store, lru, sh, cacheOther>>

(* ToonCache::get after a miss: cache.put(row_id, value); the call returns
   thr[t].val. *)
CGetFill(t) ==
    /\ thr[t].pc = "get_fill"
    /\ lru' = LruPut(lru, thr[t].id, thr[t].val)
    /\ thr' = [thr EXCEPT ![t] = CallIdle]
    /\ UNCHANGED <<store, stats, sh, cacheOther>>

(* ToonCache::delete *)
CDelete(t, row_id) ==
    LET d == CacheDelete(store, lru, row_id)
    IN  /\ thr[t].pc = "idle"
        /\ store' = d.store
        /\ lru' = d.cache
        /\ sh' = [sh EXCEPT !.deleted = IF d.res.err = "Ok" THEN @ \cup {row_id} ELSE @]
        /\ UNCHANGED <<thr, stats, cacheOther>>

(* ToonCache::scan: self.store.scan(), which reads neither the cache nor
   the counters and yields the rows of ScanLive(store). *)
CScan(t) ==
    /\ thr[t].pc = "idle"
    /\ UNCHANGED <<store, lru, stats, thr, sh, cacheOther>>

(* ToonCache::clear_cache: cache.clear() and stats.reset(). *)
CClear(t) ==
    /\ thr[t].pc = "idle"
    /\ lru' = clear_cache(lru)
    /\ stats' = StatsReset(stats)
    /\ UNCHANGED <<store, thr, sh, cacheOther>>

NextCache ==
    \/ \E t \in Threads, line \in CacheLines : CPut(t, line)
    \/ \E t \in Threads : CPutCache(t)
    \/ \E t \in Threads, row_id \in CacheRowIds : CGet(t, row_id)
    \/ \E t \in Threads : CGetStore(t)
    \/ \E t \in Threads : CGetFill(t)
    \/ \E t \in Threads, row_id \in CacheRowIds : CDelete(t, row_id)
    \/ \E t \in Threads : CScan(t)
    \/ \E t \in Threads : CClear(t)

SpecCache == InitCache /\ [][NextCache]_vars

(***************************************************************************)
(* SpecOpen: ToonStore::open on a directory whose index file was damaged   *)
(* while the store was closed.  One caller puts, deletes and closes; the   *)
(* index file of the closed store is then cut short or gets a byte of its  *)
(* magic overwritten, and open is called.                                  *)
(*                                                                         *)
(* sh is the history of SpecStore with one more field, damage: "none",     *)
(* "magic" (a byte of the magic differs), "header" (the file ends inside   *)
(* the magic or the count field) or "slots" (the file ends before the last *)
(* slot its count declares); opens is "none" until open is called and then *)
(* the outcome of the latest open: "Ok" or the error kind.                 *)
(***************************************************************************)
IdxHeaderLen == Len(TOON_IDX_MAGIC) + 4

InitOpen ==
    /\ store = create_new
    /\ thr = [t \in Threads |-> Idle]
    /\ sh = [puts |-> <<>>, deleted |-> {}, snap |-> None, opens |-> "none",
             damage |-> "none"]
    /\ lru = LruNew(1)
    /\ lruOp = <<>>
    /\ key_map = EmptyMap
    /\ keymap_file = <<>>
    /\ session = <<>>
    /\ auth_config = <<>>
    /\ user_manager = <<>>
    /\ buffer = <<>>
    /\ wire = <<>>
    /\ rx = <<>>
    /\ stats = <<>>

(* The index file loses its end: n bytes stay. *)
TruncateIdx(n) ==
    /\ store.closed
    /\ sh.damage = "none"
    /\ n < Len(store.idx_file)
    /\ store' = [store EXCEPT !.idx_file = SubSeq(@, 1, n)]
    /\ sh' = [sh EXCEPT !.damage = IF n < IdxHeaderLen THEN "header" ELSE "slots"]
    /\ UNCHANGED <<thr, lruVars>>

(* Byte i of the index file's magic is overwritten with 0. *)
CorruptMagic(i) ==
    /\ store.closed
    /\ sh.damage = "none"
    /\ store' = [store EXCEPT !.idx_file[i] = 0]
    /\ sh' = [sh EXCEPT !.damage = "magic"]
    /\ UNCHANGED <<thr, lruVars>>

(* ToonStore::open on the directory: the data file exists, so open calls
   open_existing; a failed open returns no handle. *)
OpenOp ==
    LET r == open_existing(store.data_file, store.idx_file)
    IN  /\ store.closed
        /\ store' = IF r.err = "Ok" THEN r.val[1] ELSE store
        /\ sh' = [sh EXCEPT !.opens = r.err]
        /\ UNCHANGED <<thr, lruVars>>

NextOpen ==
    \/ \E line \in Lines : PutOp(1, line)
    \/ \E row_id \in RowIds : DeleteOp(1, row_id)
    \/ CloseOp
    \/ \E n \in 0 .. (IdxHeaderLen + 8 * (MAX_DB_SIZE - Len(create_header(1, 0)))) :
          TruncateIdx(n)
    \/ \E i \in 1 .. Len(TOON_IDX_MAGIC) : CorruptMagic(i)
    \/ OpenOp

SpecOpen == InitOpen /\ [][NextOpen]_vars

(***************************************************************************)
(* SpecSave: the writing commands of SpecFront with save_keymap in the     *)
(* steps its code has.  save_keymap takes key_map.read(), opens keymap.txt *)
(* with truncate(true), writes one line per entry into a BufWriter of its  *)
(* own file handle and flushes it; the lock is released when it returns.   *)
(* While a connection is between the two steps it holds the read lock, so  *)
(* no SET, DEL or FLUSHDB can take the write lock, but other connections   *)
(* can take the read lock too.  Each handle writes from its own offset 0.  *)
(***************************************************************************)

(* save_keymap up to the open: the read lock is taken and the file is
   truncated. *)
SaveOpen(t) ==
    /\ thr[t].pc \in {"set_save", "del_save", "flush_save"}
    /\ keymap_file' = <<>>
    /\ thr' = [thr EXCEPT ![t] = [@ EXCEPT !.pc = CASE @ = "set_save" -> "set_write"
                                                    [] @ = "del_save" -> "del_write"
                                                    [] OTHER -> "flush_write"]]
    /\ sh' = [sh EXCEPT !.ev = NoEv]
    /\ UNCHANGED <<store, lru, lruOp, key_map, session, auth_config, user_manager, respVars, stats>>

(* save_keymap from the loop on: the lines of the entries reach the file
   at the handle's offset 0 when the writer is flushed; the command then
   replies. *)
SaveWrite(t) ==
    /\ thr[t].pc \in {"set_write", "del_write", "flush_write"}
    /\ \E order \in IterOrders(key_map) :
          keymap_file' = WriteAt(keymap_file, 0, save_keymap(key_map, order))
    /\ sh' = [sh EXCEPT !.ev = NoEv,
                        !.acked = IF thr[t].pc = "set_write" /\ thr[t].live
                                  THEN [@ EXCEPT ![thr[t].key] = Some(thr[t].val)] ELSE @]
    /\ thr' = [thr EXCEPT ![t] = ConnIdle]
    /\ UNCHANGED <<store, lru, lruOp, key_map, session, auth_config, user_manager, respVars, stats>>

NextSave ==
    \/ \E t \in Threads, k \in Keys, v \in Values : HandleSet(t, k, v)
    \/ \E t \in Threads, args \in DelArgs : HandleDel(t, args)
    \/ \E t \in Threads : HandleFlushdb(t)
    \/ \E t \in Threads : HandleFlushdbCache(t)
    \/ \E t \in Threads : SaveOpen(t)
    \/ \E t \in Threads : SaveWrite(t)

SpecSave == InitFront /\ [][NextSave]_vars

(***************************************************************************)
(* SpecRebuild: CommandHandler::new on a data directory that earlier runs  *)
(* of the daemon left behind.  The records are those of RebuildRecords,    *)
(* put under the source's limits (1 MiB, 1 GiB), which they all meet; some *)
(* rows were deleted, and the store was closed when the process ended.     *)
(* keymap.txt is absent (read as empty), holds a line that is no entry, or *)
(* holds an entry.  The daemon starts, and may shut down and start again.  *)
(*                                                                         *)
(* sh is history: records (the bytes put, row 0 first), dead (the row ids  *)
(* deleted), file0 (keymap.txt as the latest start found it) and started.  *)
(***************************************************************************)
MaxRows == 3

(* {"id":"a"}, the same with the id b and a line feed after the brace,
   {"x":"a"}, {"id":1} and the bare word a. *)
RebuildRecords ==
    {<<123, 34, 105, 100, 34, 58, 34, 97, 34, 125>>,
     <<123, NL, 34, 105, 100, 34, 58, 34, 98, 34, 125>>,
     <<123, 34, 120, 34, 58, 34, 97, 34, 125>>,
     <<123, 34, 105, 100, 34, 58, 49, 125>>,
     <<97>>}

(* keymap.txt before the start: absent or empty, the line "a", the entry
   a -> 0. *)
KeymapFiles == {<<>>, <<97, NL>>, <<97, TAB, 48, NL>>}

(* The handle after put of records[1..n] on a fresh store. *)
RECURSIVE PutAll(_, _)
PutAll(records, n) ==
    IF n = 0 THEN create_new ELSE AppendLine(PutAll(records, n - 1), records[n])

(* The handle st after delete of the rows of dead below n. *)
RECURSIVE DeleteAll(_, _, _)
DeleteAll(st, dead, n) ==
    IF n = 0 THEN st
    ELSE IF (n - 1) \in dead THEN StoreDelete(DeleteAll(st, dead, n - 1), n - 1).store
    ELSE DeleteAll(st, dead, n - 1)

InitRebuild ==
    /\ \E n \in 0 .. MaxRows :
          \E records \in [1 .. n -> RebuildRecords], dead \in SUBSET (0 .. n - 1),
             file \in KeymapFiles :
             /\ store = StoreClose(DeleteAll(PutAll(records, n), dead, n))
             /\ keymap_file = file
             /\ sh = [records |-> records, dead |-> dead, file0 |-> file,
                      started |-> FALSE]
    /\ key_map = EmptyMap
    /\ lru = LruNew(1)
    /\ lruOp = <<>>
    /\ thr = [t \in Threads |-> ConnIdle]
    /\ session = <<>>
    /\ auth_config = AuthDisabled
    /\ user_manager = None
    /\ buffer = <<>>
    /\ wire = <<>>
    /\ rx = <<>>
    /\ stats = <<>>

(* main: ToonCache::new opens the store, CommandHandler::new loads
   keymap.txt, rebuilds the directory from a scan when the load gave no
   entry, and saves a rebuilt directory that is not empty. *)
Start ==
    LET opened == open_existing(store.data_file, store.idx_file)
        loaded == load_keymap(keymap_file)
        rebuilt == rebuild_keymap(opened.val[1])
    IN  /\ ~sh.started
        /\ opened.err = "Ok"
        /\ store' = opened.val[1]
        /\ lru' = LruNew(lru.capacity)
        /\ key_map' = IF loaded = EmptyMap THEN rebuilt ELSE loaded
        /\ IF loaded = EmptyMap /\ rebuilt # EmptyMap
           THEN \E order \in IterOrders(rebuilt) : keymap_file' = save_keymap(rebuilt, order)
           ELSE keymap_file' = keymap_file
        /\ sh' = [sh EXCEPT !.started = TRUE, !.file0 = keymap_file]
        /\ UNCHANGED <<lruOp, thr, session, auth_config, user_manager, respVars, stats>>

(* The process ends in an orderly way: the handler and its cache are
   dropped, and Drop for ToonStore closes the store. *)
Shutdown ==
    /\ sh.started
    /\ store' = StoreClose(store)
    /\ key_map' = EmptyMap
    /\ sh' = [sh EXCEPT !.started = FALSE]
    /\ UNCHANGED <<lru, lruOp, thr, keymap_file, session, auth_config, user_manager, respVars, stats>>

NextRebuild ==
    \/ Start
    \/ Shutdown

SpecRebuild == InitRebuild /\ [][NextRebuild]_vars

(***************************************************************************)
(* SpecConn: handle_client on one connection of a daemon started without   *)
(* a password (the session may execute every command).  The peer sends up  *)
(* to MaxRequests well-formed requests, at any time, and at most one frame *)
(* that is no message (BadFrame); read_buf delivers the bytes in pieces of *)
(* any size; the inner loop parses one message, calls                      *)
(* handler.handle with it, writes the serialized response and parses       *)
(* again, until parse answers "not ready".  The requests are PING, PING    *)
(* and ECHO with one argument, an unknown command, and messages that are   *)
(* no command; none of them changes the handler's state.                   *)
(*                                                                         *)
(* rx holds the position in handle_client (pc: "read", "parse", "handle",  *)
(* "write"), the message being handled (cmd), its response (resp) and      *)
(* history: sent (the requests the peer has sent), bad (the peer has sent   *)
(* BadFrame), begun (the number of handle calls begun), out (the messages  *)
(* written, in order) and errs (the number of parse errors reported).      *)
(***************************************************************************)
MaxRequests == 2

(* "PING" *)
TextPING ==
    <<80, 73, 78, 71>>

(* "ECHO" *)
TextECHO ==
    <<69, 67, 72, 79>>

(* "PONG" *)
TextPONG ==
    <<80, 79, 78, 71>>

(* "ERR invalid command format" *)
ErrFormat ==
    <<69, 82, 82, 32, 105, 110, 118, 97, 108, 105, 100, 32, 99, 111, 109,
      109, 97, 110, 100, 32, 102, 111, 114, 109, 97, 116>>

(* "ERR invalid command" *)
ErrCommand ==
    <<69, 82, 82, 32, 105, 110, 118, 97, 108, 105, 100, 32, 99, 111, 109,
      109, 97, 110, 100>>

(* "ERR wrong number of arguments for 'ping' command" *)
ErrPingArgs ==
    <<69, 82, 82, 32, 119, 114, 111, 110, 103, 32, 110, 117, 109, 98, 101,
      114, 32, 111, 102, 32, 97, 114, 103, 117, 109, 101, 110, 116, 115,
      32, 102, 111, 114, 32, 39, 112, 105, 110, 103, 39, 32, 99, 111, 109,
      109, 97, 110, 100>>

(* "ERR wrong number of arguments for 'echo' command" *)
ErrEchoArgs ==
    <<69, 82, 82, 32, 119, 114, 111, 110, 103, 32, 110, 117, 109, 98, 101,
      114, 32, 111, 102, 32, 97, 114, 103, 117, 109, 101, 110, 116, 115,
      32, 102, 111, 114, 32, 39, 101, 99, 104, 111, 39, 32, 99, 111, 109,
      109, 97, 110, 100>>

(* "ERR unknown command '" *)
ErrUnknown ==
    <<69, 82, 82, 32, 117, 110, 107, 110, 111, 119, 110, 32, 99, 111, 109,
      109, 97, 110, 100, 32, 39>>

(* char::to_uppercase on ASCII bytes. *)
UpperBytes(b) == [i \in 1 .. Len(b) |-> IF b[i] >= 97 /\ b[i] <= 122 THEN b[i] - 32 ELSE b[i]]

(* handle_ping on the codec's values *)
ConnPing(args) ==
    IF Len(args) = 0 THEN MsgSimple(TextPONG)
    ELSE IF Len(args) = 1 THEN args[1]
    ELSE MsgError(ErrPingArgs)

(* handle_echo *)
ConnEcho(args) == IF Len(args) # 1 THEN MsgError(ErrEchoArgs) ELSE args[1]

(* CommandHandler::handle for a session that may execute every command:
   the response to the message cmd. *)
ConnHandleMsg(cmd) ==
    IF cmd.t # "array" \/ Len(cmd.a) = 0 THEN MsgError(ErrFormat)
    ELSE IF cmd.a[1].t # "bulk" THEN MsgError(ErrCommand)
    ELSE LET command == UpperBytes(cmd.a[1].b)
             args == Tail(cmd.a)
         IN  CASE command = TextPING -> ConnPing(args)
               [] command = TextECHO -> ConnEcho(args)
               [] OTHER -> MsgError(ErrUnknown \o command \o <<39>>)

Requests ==
    {MsgArray(<<MsgBulk(TextPING)>>),
     MsgArray(<<MsgBulk(<<112, 105, 110, 103>>), MsgBulk(<<97>>)>>),
     MsgArray(<<MsgBulk(TextECHO), MsgBulk(CRLF)>>),
     MsgArray(<<MsgBulk(TextECHO)>>),
     MsgArray(<<MsgBulk(<<97>>)>>),
     MsgArray(<<>>),
     MsgInteger(7)}

InitConn ==
    /\ store = create_new
    /\ thr = <<>>
    /\ sh = <<>>
    /\ lru = LruNew(1)
    /\ lruOp = <<>>
    /\ key_map = EmptyMap
    /\ keymap_file = <<>>
    /\ session = <<>>
    /\ auth_config = AuthDisabled
    /\ user_manager = None
    /\ stats = <<>>
    /\ buffer = <<>>
    /\ wire = <<>>
    /\ rx = [pc |-> "read", sent |-> <<>>, cmd |-> MsgNilBulk, resp |-> MsgNilBulk,
             begun |-> 0, out |-> <<>>, bad |-> FALSE, errs |-> 0]

(* The peer writes the frame of one more request to the socket. *)
Send(m) ==
    /\ Len(rx.sent) < MaxRequests
    /\ wire' = wire \o serialize(m)
    /\ rx' = [rx EXCEPT !.sent = Append(@, m)]
    /\ UNCHANGED <<buffer, notRespVars>>

(* A frame that starts with no type byte of the protocol: "?" CR LF. *)
BadFrame == <<63>> \o CRLF

(* The peer writes a frame that is no message to the socket. *)
SendBad ==
    /\ ~rx.bad
    /\ wire' = wire \o BadFrame
    /\ rx' = [rx EXCEPT !.bad = TRUE]
    /\ UNCHANGED <<buffer, notRespVars>>

(* "ERR": the start of the message `format!("ERR {}", e)` (the detail is
   left out). *)
ParseErrorResp == MsgError(<<69, 82, 82>>)

(* A bug the loop could have: going back to read_buf after each response. *)
AfterWrite_read == "read"

(* handle_client: after write_all the inner loop calls parse again. *)
AfterWrite == "parse"

(* handle_client, the inner loop's RespValue::parse(&mut buffer): a message
   is taken from the buffer and handler.handle is called with it; "not
   ready" goes back to read_buf; an error is answered with an error
   message and clears the buffer. *)
ConnParse ==
    LET p == parse(buffer)
    IN  /\ rx.pc = "parse"
        /\ buffer' = IF p.r = "Err" THEN <<>> ELSE p.buf
        /\ rx' = CASE p.r = "Some" -> [rx EXCEPT !.pc = "handle", !.cmd = p.val,
                                                  !.begun = @ + 1]
                   [] p.r = "None" -> [rx EXCEPT !.pc = "read"]
                   [] OTHER -> [rx EXCEPT !.pc = "read", !.errs = @ + 1,
                                          !.out = Append(@, ParseErrorResp)]
        /\ UNCHANGED <<wire, notRespVars>>

(* handle_client: `let response = handler.handle(cmd, &mut session)` *)
ConnHandle ==
    /\ rx.pc = "handle"
    /\ rx' = [rx EXCEPT !.pc = "write", !.resp = ConnHandleMsg(rx.cmd)]
    /\ UNCHANGED <<buffer, wire, notRespVars>>

(* handle_client: `stream.write_all(&response.serialize()).await` *)
ConnWrite ==
    /\ rx.pc = "write"
    /\ rx' = [rx EXCEPT !.pc = AfterWrite, !.out = Append(@, rx.resp),
                        !.cmd = MsgNilBulk, !.resp = MsgNilBulk]
    /\ UNCHANGED <<buffer, wire, notRespVars>>

NextConn ==
    \/ \E m \in Requests : Send(m)
    \/ SendBad
    \/ \E n \in 1 .. Len(wire) : ReadBuf(n)
    \/ ConnParse
    \/ ConnHandle
    \/ ConnWrite

SpecConn == InitConn /\ [][NextConn]_vars

(***************************************************************************)
(* SpecAccept: the accept loop of main with its connection_limiter, a      *)
(* semaphore created with MAX_CONNECTIONS permits (scaled down).  The      *)
(* peers in Peers connect in any order.  One iteration of the loop is one  *)
(* step: accept, try_acquire_owned, and either tokio::spawn of the         *)
(* connection task, which owns the permit, or `continue`, which drops the  *)
(* stream.  A connection task ends when handle_client returns, Ok after    *)
(* the peer closed or Err after an i/o error, and dropping the permit      *)
(* gives it back to the semaphore.  A peer whose connection is over may    *)
(* connect again.                                                          *)
(*                                                                         *)
(* thr.permits is the number of permits the semaphore has left, thr.task   *)
(* what each peer's connection is: "none", "running" (a task holds a       *)
(* permit), "closed", "failed" (the task has ended), "rejected".  sh       *)
(* counts the tasks spawned and the connections rejected so far.           *)
(***************************************************************************)
MAX_CONNECTIONS == 2

MaxPeers == 4

Peers == 1 .. MaxPeers

InitAccept ==
    /\ store = create_new
    /\ lru = LruNew(1)
    /\ lruOp = <<>>
    /\ key_map = EmptyMap
    /\ keymap_file = <<>>
    /\ session = <<>>
    /\ auth_config = AuthDisabled
    /\ user_manager = None
    /\ stats = <<>>
    /\ buffer = <<>>
    /\ wire = <<>>
    /\ rx = <<>>
    /\ thr = [permits |-> MAX_CONNECTIONS, task |-> [c \in Peers |-> "none"]]
    /\ sh = [spawned |-> 0, rejected |-> 0]

acceptVars == <<lru, lruOp, store, frontVars>>

(* A bug the limiter could have: handing out a permit it does not have. *)
try_acquire_owned_any(permits) == TRUE

(* Semaphore::try_acquire_owned: Ok exactly when a permit is left; it never
   waits. *)
try_acquire_owned(permits) == permits > 0

(* One iteration of the accept loop for the connection of peer c. *)
Accept(c) ==
    /\ thr.task[c] \notin {"running"}
    /\ sh.spawned + sh.rejected < 2 * MaxPeers
    /\ IF try_acquire_owned(thr.permits)
       THEN /\ thr' = [permits |-> thr.permits - 1,
                       task |-> [thr.task EXCEPT ![c] = "running"]]
            /\ sh' = [sh EXCEPT !.spawned = @ + 1]
       ELSE /\ thr' = [thr EXCEPT !.task[c] = "rejected"]
            /\ sh' = [sh EXCEPT !.rejected = @ + 1]
    /\ UNCHANGED acceptVars

(* The connection task of peer c ends: handle_client returned Ok (the peer
   closed) or Err, and _permit is dropped. *)
TaskEnd(c, how) ==
    /\ thr.task[c] = "running"
    /\ thr' = [permits |-> thr.permits + 1, task |-> [thr.task EXCEPT ![c] = how]]
    /\ UNCHANGED <<sh, acceptVars>>

NextAccept ==
    \/ \E c \in Peers : Accept(c)
    \/ \E c \in Peers, how \in {"closed", "failed"} : TaskEnd(c, how)

SpecAccept == InitAccept /\ [][NextAccept]_vars

(***************************************************************************)
(* SpecKill: one data directory used by a sequence of processes.  A        *)
(* process puts and deletes, and ends either through close (which writes   *)
(* the index file; Drop calls it too) or by being killed, which leaves     *)
(* the files as the last put and delete wrote them.  The next process      *)
(* opens the directory with ToonStore::open.  sh.puts is the history of    *)
(* successful puts of all the processes.                                   *)
(***************************************************************************)
(* The process is killed (no close, no Drop) and the next one opens the
   directory. *)
KillOp ==
    LET r == open_existing(store.data_file, store.idx_file)
    IN  /\ ~store.closed
        /\ r.err = "Ok"
        /\ store' = r.val[1]
        /\ sh' = [sh EXCEPT !.snap = None, !.opens = "ok"]
        /\ UNCHANGED <<thr, lruVars>>

NextKill ==
    \/ \E line \in Lines : PutOp(1, line)
    \/ \E row_id \in RowIds : DeleteOp(1, row_id)
    \/ CloseOp
    \/ ReopenOp
    \/ KillOp

SpecKill == InitStore /\ [][NextKill]_vars

(***************************************************************************)
(* SpecKeys: the KEYS command over a directory of up to two keys.  Keys    *)
(* and patterns are sequences of characters (String::chars): keys of the   *)
(* letters a and b, patterns of a, "*" and "?".  sh holds the one KEYS     *)
(* call made: its arguments and its reply (an error, or the keys of the    *)
(* array in the order written).                                            *)
(***************************************************************************)
MaxKeyLen == 3

MaxPatternLen == 4

Star == 42

Question == 63

KeyChars == {97, 98}

PatternChars == {97, Star, Question}

KeyTexts == UNION {[1 .. n -> KeyChars] : n \in 0 .. MaxKeyLen}

Patterns == UNION {[1 .. n -> PatternChars] : n \in 0 .. MaxPatternLen}

(* matches_pattern, the first loop, with 0-based key_idx, pattern_idx,
   match_idx and star_idx an Option: TRUE when the loop ends with a return
   of false, else the pattern_idx it ends with. *)
RECURSIVE MatchLoop(_, _, _, _, _, _)
MatchLoop(key, pattern, key_idx, pattern_idx, star_idx, match_idx) ==
    IF key_idx >= Len(key) THEN [failed |-> FALSE, pattern_idx |-> pattern_idx]
    ELSE IF pattern_idx < Len(pattern) /\ pattern[pattern_idx + 1] = Star
    THEN MatchLoop(key, pattern, key_idx, pattern_idx + 1, Some(pattern_idx), key_idx)
    ELSE IF pattern_idx < Len(pattern) /\ pattern[pattern_idx + 1] = Question
    THEN MatchLoop(key, pattern, key_idx + 1, pattern_idx + 1, star_idx, match_idx)
    ELSE IF pattern_idx < Len(pattern) /\ pattern[pattern_idx + 1] = key[key_idx + 1]
    THEN MatchLoop(key, pattern, key_idx + 1, pattern_idx + 1, star_idx, match_idx)
    ELSE IF IsSome(star_idx)
    THEN MatchLoop(key, pattern, match_idx + 1, Unwrap(star_idx) + 1, star_idx, match_idx + 1)
    ELSE [failed |-> TRUE, pattern_idx |-> pattern_idx]

(* A bug matches_pattern could have: not skipping the stars the pattern
   ends with. *)
SkipStars_none(pattern, pattern_idx) == pattern_idx

(* matches_pattern, the second loop: pattern_idx after the stars at it. *)
RECURSIVE SkipStars(_, _)
SkipStars(pattern, pattern_idx) ==
    IF pattern_idx < Len(pattern) /\ pattern[pattern_idx + 1] = Star
    THEN SkipStars(pattern, pattern_idx + 1)
    ELSE pattern_idx

(* matches_pattern *)
matches_pattern(key, pattern) ==
    LET l == MatchLoop(key, pattern, 0, 0, None, 0)
    IN  IF pattern = <<Star>> THEN TRUE
        ELSE IF l.failed THEN FALSE
        ELSE SkipStars(pattern, l.pattern_idx) = Len(pattern)

(* handle_keys with the directory iterated in `order`: args is the list of
   arguments, each the bytes of a bulk string. *)
handle_keys(map, order, args) ==
    LET pattern == IF Len(args) = 0 THEN <<Star>> ELSE args[1]
        hits == {i \in 1 .. Len(order) : matches_pattern(order[i], pattern)}
        Pick[n \in 0 .. Len(order)] ==
            IF n = 0 THEN <<>>
            ELSE IF n \in hits THEN Append(Pick[n - 1], order[n]) ELSE Pick[n - 1]
    IN  IF Len(args) > 0 /\ ~IsUtf8(args[1])
        THEN [err |-> "ERR invalid pattern", keys |-> <<>>]
        ELSE [err |-> "", keys |-> Pick[Len(order)]]

KeysArgs == {<<>>, <<<<255>>>>} \cup {<<p>> : p \in Patterns}

InitKeys ==
    /\ store = create_new
    /\ lru = LruNew(1)
    /\ lruOp = <<>>
    /\ \E a, b \in KeyTexts :
          \/ key_map = EmptyMap
          \/ key_map = MapInsert(EmptyMap, a, 0)
          \/ a # b /\ Len(a) <= Len(b) /\ key_map = MapInsert(MapInsert(EmptyMap, a, 0), b, 1)
    /\ keymap_file = <<>>
    /\ session = <<>>
    /\ auth_config = AuthDisabled
    /\ user_manager = None
    /\ stats = <<>>
    /\ buffer = <<>>
    /\ wire = <<>>
    /\ rx = <<>>
    /\ thr = <<>>
    /\ sh = [called |-> FALSE, args |-> <<>>, reply |-> [err |-> "", keys |-> <<>>]]

(* One KEYS command. *)
HandleKeys(args) ==
    /\ ~sh.called
    /\ \E order \in IterOrders(key_map) :
          sh' = [called |-> TRUE, args |-> args, reply |-> handle_keys(key_map, order, args)]
    /\ UNCHANGED <<store, lru, lruOp, thr, frontVars>>

NextKeys == \E args \in KeysArgs : HandleKeys(args)

SpecKeys == InitKeys /\ [][NextKeys]_vars

(***************************************************************************)
(* SpecSeq: one ToonCache of capacity 1 .. MaxCacheCapacity over a fresh   *)
(* ToonStore, called by one caller: every put, get, delete and clear_cache *)
(* runs to its end before the next call starts.  sh is the last call and   *)
(* its result.                                                             *)
(***************************************************************************)
InitSeq ==
    /\ store = create_new
    /\ \E capacity \in 1 .. MaxCacheCapacity : lru = LruNew(capacity)
    /\ stats = <<>>
    /\ thr = <<>>
    /\ sh = [op |-> "none", id |-> 0, res |-> Ok(<<>>)]
    /\ lruOp = <<>>
    /\ key_map = EmptyMap
    /\ keymap_file = <<>>
    /\ session = <<>>
    /\ auth_config = <<>>
    /\ user_manager = None
    /\ buffer = <<>>
    /\ wire = <<>>
    /\ rx = <<>>

seqOther == <<lruOp, thr, frontVars>>

(* ToonCache::put *)
SeqPut(line) ==
    LET r == CachePut(store, lru, line)
    IN  /\ store' = r.store
        /\ lru' = r.cache
        /\ sh' = [op |-> "put", id |-> IF r.res.err = "Ok" THEN r.res.val[1] ELSE 0,
                  res |-> r.res]
        /\ UNCHANGED seqOther

(* ToonCache::get *)
SeqGet(row_id) ==
    LET r == CacheGet(store, lru, row_id)
    IN  /\ lru' = r.cache
        /\ sh' = [op |-> "get", id |-> row_id, res |-> r.res]
        /\ UNCHANGED <<store, seqOther>>

(* ToonCache::delete *)
SeqDelete(row_id) ==
    LET r == CacheDelete(store, lru, row_id)
    IN  /\ store' = r.store
        /\ lru' = r.cache
        /\ sh' = [op |-> "delete", id |-> row_id, res |-> r.res]
        /\ UNCHANGED seqOther

(* ToonCache::clear_cache *)
SeqClear ==
    /\ lru' = clear_cache(lru)
    /\ sh' = [op |-> "clear_cache", id |-> 0, res |-> Ok(<<>>)]
    /\ UNCHANGED <<store, seqOther>>

NextSeq ==
    \/ \E line \in Lines : SeqPut(line)
    \/ \E row_id \in RowIds : SeqGet(row_id)
    \/ \E row_id \in RowIds : SeqDelete(row_id)
    \/ SeqClear

SpecSeq == InitSeq /\ [][NextSeq]_vars

(***************************************************************************)
(* SpecLocks: the locks taken by concurrent SET, GET, MGET, DEL and        *)
(* FLUSHDB commands.  sh[l] is the state of the RwLock l (its writer, 0    *)
(* for none, its readers, and the threads parked on it in the order they   *)
(* came); thr[t] is the command thread t runs, the place it has reached    *)
(* and the number of keys it has still to treat.                           *)
(* What the calls compute is left open: each test on data (key known,     *)
(* cache hit, row found, value too large, database full) may go either    *)
(* way.  ToonStore's `closed` lock is only ever read here, by a guard that *)
(* lives for one expression, so it never makes a thread wait.             *)
(***************************************************************************)
MaxArgs == 2

LockNames == {"key_map", "cache", "db_size", "data_file", "index"}

LockCommands == {"SET", "GET", "MGET", "DEL", "FLUSHDB"}

Resting == [cmd |-> "none", pc |-> "idle", n |-> 0]

InitLocks ==
    /\ thr = [t \in Threads |-> Resting]
    /\ sh = [l \in LockNames |-> [w |-> 0, r |-> {}, q |-> <<>>]]
    /\ store = create_new
    /\ lru = LruNew(1)
    /\ lruOp = <<>>
    /\ key_map = EmptyMap
    /\ keymap_file = <<>>
    /\ session = <<>>
    /\ auth_config = <<>>
    /\ user_manager = <<>>
    /\ buffer = <<>>
    /\ wire = <<>>
    /\ rx = <<>>
    /\ stats = <<>>

(* One step of a thread: the lock it takes (<<>> for none, else the lock
   and "r" or "w"), the guards that go out of scope once it has it, and
   where the thread is then. *)
LockStep(take, drop, pc, n) == [take |-> take, drop |-> drop, pc |-> pc, n |-> n]

(* A bug handle_set could have: calling save_keymap with the write guard
   of the directory still alive. *)
SetDropsKeyMap_late == {}

(* handle_set, `drop(key_map); // Release lock before save` *)
SetDropsKeyMap == {"key_map"}

(* handle_set, handle_get, handle_mget, handle_del, handle_flushdb and
   save_keymap: the steps open to a thread at pc. *)
handler_locks(cmd, pc, n) ==
    IF pc = "handle" THEN
        IF cmd = "SET"
        THEN {LockStep(<<"key_map", "w">>, {}, next, n) : next \in {"cache_delete", "cache_put"}}
        ELSE IF cmd = "DEL" THEN {LockStep(<<"key_map", "w">>, {}, "key", n)}
        ELSE IF cmd = "FLUSHDB" THEN {LockStep(<<"key_map", "w">>, {"key_map"}, "clear_cache", n)}
        ELSE {LockStep(<<"key_map", "r">>, {}, "key", n)}
    ELSE IF pc = "key" THEN
        IF cmd = "DEL"
        THEN {LockStep(<<>>, {}, next, n) : next \in {"cache_delete", "next_key"}}
        ELSE {LockStep(<<>>, {}, next, n) : next \in {"cache_get", "next_key"}}
    ELSE IF pc = "deleted" THEN
        IF cmd = "SET" THEN {LockStep(<<>>, {}, "cache_put", n)}
        ELSE {LockStep(<<>>, {}, "next_key", n)}
    ELSE IF pc = "got" THEN {LockStep(<<>>, {}, "next_key", n)}
    ELSE IF pc = "next_key" THEN
        IF n > 1 THEN {LockStep(<<>>, {}, "key", n - 1)}
        ELSE IF cmd = "DEL"
        THEN {LockStep(<<>>, {"key_map"}, next, 0) : next \in {"save_keymap", "idle"}}
        ELSE {LockStep(<<>>, {"key_map"}, "idle", 0)}
    ELSE IF pc = "put_ok" THEN {LockStep(<<>>, SetDropsKeyMap, "save_keymap", n)}
    ELSE IF pc = "put_err" THEN {LockStep(<<>>, {"key_map"}, "idle", 0)}
    ELSE IF pc = "save_keymap" THEN {LockStep(<<"key_map", "r">>, {"key_map"}, "idle", 0)}
    ELSE {}

(* ToonCache::put, get, delete and clear_cache *)
cache_locks(cmd, pc, n) ==
    IF pc = "cache_put" THEN {LockStep(<<>>, {}, "store_put", n)}
    ELSE IF pc = "stored" THEN {LockStep(<<"cache", "w">>, {"cache"}, "put_ok", n)}
    ELSE IF pc = "cache_get"
    THEN {LockStep(<<"cache", "w">>, {"cache"}, next, n) : next \in {"got", "store_get"}}
    ELSE IF pc = "fetched" THEN {LockStep(<<"cache", "w">>, {"cache"}, "got", n)}
    ELSE IF pc = "cache_delete" THEN {LockStep(<<"cache", "w">>, {}, "store_delete", n)}
    ELSE IF pc = "store_deleted" THEN {LockStep(<<>>, {"cache"}, "deleted", n)}
    ELSE IF pc = "clear_cache" THEN {LockStep(<<"cache", "w">>, {"cache"}, "save_keymap", n)}
    ELSE {}

(* ToonStore::get, `drop(index)` *)
GetDropsIndex == {"index"}

(* ToonStore::put, get and delete *)
store_locks(cmd, pc, n) ==
    IF pc = "store_put"
    THEN {LockStep(<<>>, {}, next, n) : next \in {"put_err", "put_db_size"}}
    ELSE IF pc = "put_db_size"
    THEN {LockStep(<<"db_size", "w">>, {}, "put_data_file", n),
          LockStep(<<"db_size", "w">>, {"db_size"}, "put_err", n)}
    ELSE IF pc = "put_data_file" THEN {LockStep(<<"data_file", "w">>, {}, "put_index", n)}
    ELSE IF pc = "put_index"
    THEN {LockStep(<<"index", "w">>, {"db_size", "data_file", "index"}, "stored", n)}
    ELSE IF pc = "store_get"
    THEN {LockStep(<<"index", "r">>, GetDropsIndex, "get_data_file", n),
          LockStep(<<"index", "r">>, {"index"}, "got", n)}
    ELSE IF pc = "get_data_file"
    THEN {LockStep(<<"data_file", "w">>, {"data_file", "index"}, "fetched", n)}
    ELSE IF pc = "store_delete" THEN {LockStep(<<"index", "w">>, {"index"}, "store_deleted", n)}
    ELSE {}

(* The steps open to thread t where it is. *)
StepsOf(t) ==
    handler_locks(thr[t].cmd, thr[t].pc, thr[t].n)
        \cup cache_locks(thr[t].cmd, thr[t].pc, thr[t].n)
        \cup store_locks(thr[t].cmd, thr[t].pc, thr[t].n)

(* Thread t is parked on lock l. *)
Parked(t, l) == \E i \in 1 .. Len(sh[l].q) : sh[l].q[i] = t

(* RwLock::read and RwLock::write return at once: a reader needs the lock
   free of a writer, a writer needs it free, and nobody parked on it. *)
CanTake(take) ==
    /\ sh[take[1]].w = 0
    /\ take[2] = "w" => sh[take[1]].r = {}
    /\ sh[take[1]].q = <<>>

(* The parked thread t is woken and has the lock: it is the first of the
   queue and the lock is free for it. *)
CanWake(t, take) ==
    /\ sh[take[1]].w = 0
    /\ take[2] = "w" => sh[take[1]].r = {}
    /\ sh[take[1]].q # <<>>
    /\ Head(sh[take[1]].q) = t

(* The locks once t has taken `take` and its guards in `drop` are gone. *)
LocksAfter(t, take, drop) ==
    [l \in LockNames |->
        LET q == IF take # <<>> /\ take[1] = l /\ Parked(t, l) THEN Tail(sh[l].q) ELSE sh[l].q
        IN  IF l \in drop
            THEN [w |-> IF sh[l].w = t THEN 0 ELSE sh[l].w, r |-> sh[l].r \ {t}, q |-> q]
            ELSE IF take # <<>> /\ take[1] = l
            THEN IF take[2] = "w" THEN [w |-> t, r |-> sh[l].r, q |-> q]
                 ELSE [w |-> sh[l].w, r |-> sh[l].r \cup {t}, q |-> q]
            ELSE sh[l]]

(* CommandHandler::handle is entered with a command of n keys. *)
LockDispatch(t, cmd, n) ==
    /\ thr[t].pc = "idle"
    /\ cmd \in {"MGET", "DEL"} \/ n = 1
    /\ thr' = [thr EXCEPT ![t] = [cmd |-> cmd, pc |-> "handle", n |-> n]]
    /\ UNCHANGED <<sh, store, lruVars>>

(* Thread t has a step it can take now: one that asks for no lock, one
   whose lock it gets, or parking on the lock it asks for. *)
CanAdvance(t) ==
    \E s \in StepsOf(t) :
        \/ s.take = <<>>
        \/ s.take # <<>> /\ ~Parked(t, s.take[1])
        \/ s.take # <<>> /\ CanWake(t, s.take)

(* Thread t goes one step on: it takes the step, or parks on the lock the
   step asks for and waits there until it is the first and the lock is
   free. *)
LockAdvance(t) ==
    /\ \E s \in StepsOf(t) :
          IF s.take = <<>> \/ (s.take # <<>> /\ (CanTake(s.take) \/ CanWake(t, s.take)))
          THEN /\ sh' = LocksAfter(t, s.take, s.drop)
               /\ thr' = [thr EXCEPT ![t] = IF s.pc = "idle" THEN Resting
                                            ELSE [@ EXCEPT !.pc = s.pc, !.n = s.n]]
          ELSE /\ ~Parked(t, s.take[1])
               /\ sh' = [sh EXCEPT ![s.take[1]].q = Append(@, t)]
               /\ thr' = thr
    /\ UNCHANGED <<store, lruVars>>

NextLocks ==
    \/ \E t \in Threads, cmd \in LockCommands, n \in 1 .. MaxArgs : LockDispatch(t, cmd, n)
    \/ \E t \in Threads : LockAdvance(t)

(* The locks wake the threads parked on them in turn (parking_lot's RwLock
   is task-fair), and a thread that can run does run. *)
SpecLocks == InitLocks /\ [][NextLocks]_vars /\ \A t \in Threads : WF_vars(LockAdvance(t))

(***************************************************************************)
(* SpecFlush: one client of the daemon over a fresh data directory: it     *)
(* sets keys to the records of RebuildRecords (put under the source's      *)
(* limits, which they all meet, at most MaxRows of them), flushes the      *)
(* database, and the daemon shuts down and starts again.  sh is the        *)
(* history of SpecRebuild and flushed: FLUSHDB has been answered and no    *)
(* SET since.                                                              *)
(***************************************************************************)
InitFlush ==
    /\ store = StoreClose(create_new)
    /\ keymap_file = <<>>
    /\ sh = [records |-> <<>>, dead |-> {}, file0 |-> <<>>, started |-> FALSE,
             flushed |-> FALSE]
    /\ key_map = EmptyMap
    /\ lru = LruNew(1)
    /\ lruOp = <<>>
    /\ thr = [t \in Threads |-> ConnIdle]
    /\ session = <<>>
    /\ auth_config = AuthDisabled
    /\ user_manager = None
    /\ buffer = <<>>
    /\ wire = <<>>
    /\ rx = <<>>
    /\ stats = <<>>

(* handle_set run to its end with a record that put accepts: cache.delete
   of the row the key had, cache.put, key_map.insert, save_keymap. *)
SetRecord(k, record) ==
    LET d == SetDeleteOld(key_map, store, lru, k)
        row_id == NextRowId(d.store.index)
        map == MapInsert(key_map, k, row_id)
    IN  /\ sh.started
        /\ Len(store.index) < MaxRows
        /\ store' = AppendLine(d.store, record)
        /\ lru' = LruPut(d.cache, row_id, record)
        /\ key_map' = map
        /\ \E order \in IterOrders(map) : keymap_file' = save_keymap(map, order)
        /\ sh' = [sh EXCEPT !.records = Append(@, record), !.flushed = FALSE,
                            !.dead = IF k \in DOMAIN key_map THEN @ \cup {key_map[k]} ELSE @]
        /\ UNCHANGED <<lruOp, thr, session, auth_config, user_manager, respVars, stats>>

(* handle_flushdb run to its end: key_map.clear(), cache.clear_cache(),
   save_keymap of the empty directory.  The rows stay in the store. *)
FlushAll ==
    /\ sh.started
    /\ key_map' = EmptyMap
    /\ lru' = clear_cache(lru)
    /\ keymap_file' = save_keymap(EmptyMap, <<>>)
    /\ sh' = [sh EXCEPT !.flushed = TRUE]
    /\ UNCHANGED <<store, lruOp, thr, session, auth_config, user_manager, respVars, stats>>

NextFlush ==
    \/ \E k \in Keys, record \in RebuildRecords : SetRecord(k, record)
    \/ FlushAll
    \/ Start
    \/ Shutdown

SpecFlush == InitFlush /\ [][NextFlush]_vars

(* The line of the latest successful put that returned row id id. *)
HasPut(id) == \E i \in 1 .. Len(sh.puts) : sh.puts[i][1] = id

PutLine(id) ==
    sh.puts[CHOOSE i \in 1 .. Len(sh.puts) :
              /\ sh.puts[i][1] = id
              /\ \A j \in 1 .. Len(sh.puts) : sh.puts[j][1] = id => j <= i][2]

\* C1: if put(b) returned id, every get(id) issued before a successful
\* delete(id) returns exactly b: a get begun now, and a get already past
\* its index lookup whenever it reads the file.
C1_RoundTrip ==
    /\ \A id \in RowIds :
          (HasPut(id) /\ id \notin sh.deleted /\ ~store.closed)
          => StoreGet(store, id) = Ok(PutLine(id))
    /\ \A t \in Threads :
          thr[t].pc = "get_read"
          => ReadLine(store.data_file, thr[t].off) = Ok(PutLine(thr[t].id))

\* C2: on a freshly created store the successful puts return 0, 1, ..., n-1
\* in order, len() is the number of successful puts, and every slot below
\* len() is a tombstone or the offset of a record in the data file.
C2_Density ==
    /\ \A i \in 1 .. Len(sh.puts) : sh.puts[i][1] = i - 1
    /\ StoreLen(store) = Len(sh.puts)
    /\ \A i \in 1 .. StoreLen(store) :
          \/ store.index[i] = None
          \/ /\ IsSome(store.index[i])
             /\ Unwrap(store.index[i]) >= Len(create_header(1, 0))
             /\ Unwrap(store.index[i]) < Len(store.data_file)

C2_Witness ==
    /\ Len(sh.puts) >= 3
    /\ sh.deleted # {}
    /\ \E t \in Threads : thr[t].pc = "get_read"
    /\ \E t \in Threads : thr[t].pc = "scan_read"

\* C3: after close and a new open the open succeeds, len() is what it was
\* before close, and get(id) returns the same bytes for every id that was
\* live before close.
C3_Durable ==
    /\ sh.opens # "failed"
    /\ (IsSome(sh.snap) /\ ~store.closed)
       => /\ StoreLen(store) = Unwrap(sh.snap).len
          /\ \A i \in 1 .. Unwrap(sh.snap).len :
                Unwrap(sh.snap).get[i].err = "Ok"
                => StoreGet(store, i - 1) = Unwrap(sh.snap).get[i]

C3_Witness ==
    /\ IsSome(sh.snap)
    /\ ~store.closed
    /\ sh.opens = "ok"
    /\ sh.deleted # {}
    /\ \E i \in 1 .. Unwrap(sh.snap).len :
          Unwrap(sh.snap).get[i].err = "Ok" /\ Len(Unwrap(sh.snap).get[i].val) > 0

\* C4: once delete(id) has returned Ok, on the open store (also after
\* further puts and deletes and after close and reopen) get(id) and
\* delete(id) return NotFound, a scan finds slot id tombstoned, and no scan
\* that looked at the slot after the delete is about to yield it.
C4_TombstoneFinal ==
    /\ \A id \in sh.deleted :
          ~store.closed
          => /\ GetLookup(store, id) = Err("NotFound")
             /\ StoreGet(store, id) = Err("NotFound")
             /\ StoreDelete(store, id).res = Err("NotFound")
             /\ id \notin ScanLive(store)
    /\ \A t \in Threads : thr[t].pc \in {"scan_lookup", "scan_read"} => ~thr[t].late

C4_Witness ==
    /\ sh.opens = "ok"
    /\ ~store.closed
    /\ sh.deleted # {}
    /\ Len(sh.puts) > Cardinality(sh.deleted) + 1
    /\ \E id \in sh.deleted : id + 1 < Len(sh.puts)
    /\ \E t \in Threads : thr[t].pc = "scan_check" /\ thr[t].cur > 0

(* The value the cache holds for key k, read without touching recency. *)
LruPeek(c, k) ==
    IF k \in DOMAIN c.map /\ IsSome(NodeAt(c, c.map[k]))
    THEN Some(Unwrap(NodeAt(c, c.map[k])).value) ELSE None

\* C5: whenever put inserts a new key while len() equals capacity, exactly
\* one entry is removed, it is the least recently touched one, and every
\* other entry stays present.
C5_EvictsLeastRecent ==
    (lruOp.op = "put" /\ lruOp.key \notin lruOp.before
       /\ Cardinality(lruOp.before) = lru.capacity)
    => /\ IsSome(lruOp.expect)
       /\ DOMAIN lru.map = (lruOp.before \ {Unwrap(lruOp.expect)}) \cup {lruOp.key}

\* C6: after putting capacity + 1 distinct keys into a new cache with no
\* other call in between, exactly the first-inserted key is absent and the
\* other capacity keys are present with their values.
C6_FirstEviction ==
    (IsSome(lruOp.fresh) /\ Len(Unwrap(lruOp.fresh)) = lru.capacity + 1)
    => LET ks == Unwrap(lruOp.fresh)
       IN  /\ ks[1][1] \notin DOMAIN lru.map
           /\ \A i \in 2 .. Len(ks) : LruPeek(lru, ks[i][1]) = Some(ks[i][2])
           /\ LruLen(lru) = lru.capacity

C6_Witness ==
    /\ IsSome(lruOp.fresh)
    /\ Len(Unwrap(lruOp.fresh)) = lru.capacity + 1
    /\ lru.capacity = MaxCapacity

\* C7: after every operation, len() <= capacity.
C7_Bounded == LruLen(lru) <= lru.capacity

C7_Witness ==
    /\ lruOp.op = "put"
    /\ lruOp.key \notin lruOp.before
    /\ Cardinality(lruOp.before) = lru.capacity
    /\ LruLen(lru) = lru.capacity

\* C8: once a SET k v has replied OK, and until a SET k, a DEL k or a
\* FLUSHDB is processed, a GET k that starts on any connection returns the
\* bulk string v.
C8_SetVisible ==
    \A k \in Keys :
        IsSome(sh.acked[k])
        => handle_get(key_map, store, lru, k).reply = BulkString(Unwrap(sh.acked[k]))

\* C9: in every state of the front-end, across crashes and restarts too, a
\* key of the directory whose row id is live in the store has been SET, and
\* the bytes of that row are the value of the latest successful SET of the
\* key.
C9_DirectoryConsistent ==
    \A k \in DOMAIN key_map :
        GetLookup(store, key_map[k]).err = "Ok"
        => /\ IsSome(sh.last_set[k])
           /\ StoreGet(store, key_map[k]) = Ok(Unwrap(sh.last_set[k]))

\* C10: while authentication is required and the session of a connection
\* is not authenticated, handle refuses every command other than AUTH with
\* NOAUTH, the connection never enters a command handler, and the step that
\* refuses its command leaves the store, the cache, the key directory, the
\* directory file and every session as they were.
C10_AuthGate ==
    [][\A t \in Threads :
          (auth_config.required /\ ~session[t].authenticated)
          => /\ \A command \in Commands \cup OtherCommands :
                   Refusal(auth_config, session[t], command) = Some(Error("NOAUTH"))
             /\ thr[t].pc = "idle"
             /\ thr'[t].pc = "idle"
             /\ (sh'.ev.conn = t /\ sh'.ev.cmd # "AUTH")
                => /\ sh'.ev.reply = Error("NOAUTH")
                   /\ UNCHANGED <<store, lru, key_map, keymap_file, session>>]_vars

C10_Witness ==
    /\ auth_config.required
    /\ sh.ev.conn \in Threads
    /\ ~session[sh.ev.conn].authenticated
    /\ sh.ev.cmd = "SET"
    /\ sh.ev.reply = Error("NOAUTH")
    /\ \E u \in Threads : session[u].authenticated
    /\ key_map # EmptyMap
    /\ LruLen(lru) > 0

(* Some authentication is configured: a password or the multi-user mode. *)
AuthConfigured == auth_config.required \/ IsSome(user_manager)

(* The session of connection t is what the claim says a new one is. *)
SessionInitial(t) ==
    /\ session[t].authenticated <=> ~AuthConfigured
    /\ AuthConfigured
       => /\ session[t].user_role = None
          /\ \A raw \in RawCommands :
                Refusal(auth_config, session[t], to_uppercase(raw)) = Some(Error("NOAUTH"))

\* C11: the session of a new connection (at start and after every accept)
\* is authenticated iff neither a password nor the multi-user mode is
\* configured; when one is, it has no role and every command other than
\* AUTH is refused with NOAUTH.
C11_SessionInitial ==
    /\ \A t \in Threads : SessionInitial(t)
    /\ [][\A t \in Threads :
             sh'.ev = Ev(t, "CONNECT", NoReply) => SessionInitial(t)']_vars

(* The fixed policy of the claim: role R permits the command named C. *)
Permits(R, C) ==
    \/ R = "Admin"
    \/ R = "ReadWrite" /\ C \notin {"FLUSHDB", "FLUSHALL", "USER", "ACL", "CONFIG"}
    \/ R = "ReadOnly" /\ C \in {"GET", "MGET", "EXISTS", "KEYS", "DBSIZE", "INFO",
                                 "PING", "ECHO"}

\* C12: for an authenticated session with role R, handle lets a command
\* other than AUTH through to the dispatch iff R permits its upper-cased
\* name and refuses it with NOPERM otherwise; a connection enters the SET,
\* DEL, FLUSHDB, GET or USER handler only with a role that permits it; and
\* the step that answers NOPERM leaves store, cache, key directory,
\* directory file and user table unchanged.
C12_RoleGate ==
    /\ [](\A t \in Threads :
            session[t].authenticated
            => LET R == Unwrap(session[t].user_role)
               IN  /\ IsSome(session[t].user_role)
                   /\ \A raw \in RawCommands :
                         LET C == to_uppercase(raw)
                         IN  Refusal(auth_config, session[t], C)
                               = IF Permits(R, C) THEN None ELSE Some(Error("NOPERM")))
    /\ [][\A t \in Threads :
          session[t].authenticated
          => LET R == Unwrap(session[t].user_role)
             IN  /\ IsSome(session[t].user_role)
                 /\ (thr[t].pc = "idle" /\ thr'[t].pc = "set_save") => Permits(R, "SET")
                 /\ (thr[t].pc = "idle" /\ thr'[t].pc = "del_save") => Permits(R, "DEL")
                 /\ (thr[t].pc = "idle" /\ thr'[t].pc = "flush_cache")
                    => Permits(R, "FLUSHDB")
                 /\ (thr[t].pc = "idle" /\ thr'[t].pc = "get_fill") => Permits(R, "GET")
                 /\ (sh'.ev.conn = t /\ sh'.ev.cmd = "USER"
                       /\ sh'.ev.reply.s \notin {"NOPERM", "NOAUTH"})
                    => Permits(R, "USER")
                 /\ (sh'.ev.conn = t /\ sh'.ev.reply.s \in {"NOPERM", "NOAUTH"})
                    => /\ sh'.ev.reply = Error("NOPERM")
                       /\ ~Permits(R, sh'.ev.cmd)
                       /\ UNCHANGED <<store, lru, key_map, keymap_file, user_manager,
                                      session, thr>>]_vars

C12_Witness ==
    /\ sh.ev.conn \in Threads
    /\ sh.ev.cmd = "FLUSHDB"
    /\ sh.ev.reply = Error("NOPERM")
    /\ session[sh.ev.conn].user_role = Some("ReadWrite")
    /\ key_map # EmptyMap
    /\ LruLen(lru) > 0
    /\ \E u \in Threads : session[u].user_role = Some("ReadOnly")

\* C13: within a connection the session changes only in a step where its
\* AUTH is answered OK, and then to what handle_auth makes of it; an AUTH
\* answered WRONGPASS or ERR and every other step leave it as it was, and
\* authenticated never goes from true to false.
C13_SessionMonotone ==
    [][\A t \in Threads :
          sh'.ev # Ev(t, "CONNECT", NoReply)
          => /\ session[t].authenticated => session'[t].authenticated
             /\ session'[t] # session[t]
                => /\ sh'.ev = Ev(t, "AUTH", SimpleString("OK"))
                   /\ \E args \in AuthInputs :
                         handle_auth(auth_config, user_manager, session[t], args)
                           = [session |-> session'[t], reply |-> SimpleString("OK")]
             /\ (sh'.ev.conn = t /\ sh'.ev.cmd = "AUTH"
                   /\ sh'.ev.reply # SimpleString("OK"))
                => /\ sh'.ev.reply \in {Error("WRONGPASS"), Error("ERR")}
                   /\ session'[t] = session[t]]_vars

C13_Witness ==
    /\ sh.ev.conn \in Threads
    /\ sh.ev.cmd = "AUTH"
    /\ sh.ev.reply = Error("WRONGPASS")
    /\ session[sh.ev.conn].authenticated
    /\ session[sh.ev.conn].user_role = Some("ReadOnly")
    /\ \E u \in Threads : thr[u].pc = "set_save"

(* p is a strict prefix of f. *)
IsStrictPrefix(p, f) == Len(p) < Len(f) /\ p = SubSeq(f, 1, Len(p))

\* C14: for every well-formed message m, parse on a buffer holding exactly
\* serialize(m) returns m and leaves the buffer empty: for the buffer the
\* connection holds now, and for the parse call the connection made last.
C14_CodecRoundTrip ==
    \A i \in 1 .. Len(rx.sent) :
        /\ buffer = serialize(rx.sent[i])
           => parse(buffer) = [r |-> "Some", val |-> rx.sent[i], buf |-> <<>>]
        /\ (rx.n > 0 /\ rx.before = serialize(rx.sent[i]))
           => /\ rx.last = [r |-> "Some", val |-> rx.sent[i]]
              /\ rx.after = <<>>

C14_Witness ==
    /\ rx.n > 0
    /\ Len(rx.sent) = 1
    /\ rx.before = serialize(rx.sent[1])
    /\ rx.sent[1].t = "array"
    /\ Len(rx.sent[1].a) = 2
    /\ rx.sent[1].a[1] = MsgArray(<<MsgInteger(7), MsgBulk(CRLF)>>)
    /\ rx.sent[1].a[2] = MsgNilArray
    /\ buffer = <<>>

\* C15: for every strict prefix p of the frame of a well-formed message,
\* parse on a buffer holding p returns "not ready" and leaves the buffer as
\* it was.
C15_CodecIncremental ==
    \A i \in 1 .. Len(rx.sent) :
        /\ IsStrictPrefix(buffer, serialize(rx.sent[i]))
           => parse(buffer) = [r |-> "None", val |-> MsgNilBulk, buf |-> buffer]
        /\ (rx.n > 0 /\ IsStrictPrefix(rx.before, serialize(rx.sent[i])))
           => /\ rx.last.r = "None"
              /\ rx.after = rx.before
              /\ rx.pc = "read" => buffer = rx.before

C15_Witness ==
    /\ rx.n > 0
    /\ Len(rx.sent) = 1
    /\ rx.sent[1] = MsgArray(<<MsgArray(<<MsgInteger(7), MsgBulk(CRLF)>>), MsgBulk(<<NL>>)>>)
    /\ IsStrictPrefix(rx.before, serialize(rx.sent[1]))
    /\ Len(rx.before) = Len(serialize(rx.sent[1])) - 8
    /\ rx.last.r = "None"
    /\ buffer = rx.before

\* C16: once the buffer holds a stream up to the end of a length line that
\* declares a bulk string of more than 512 MiB or an array of more than
\* 1,048,576 elements (at top level or as a nested element), parse returns
\* an error, whatever follows the line in the buffer.
C16_SizeGuards ==
    /\ (rx.over > 0 /\ Len(buffer) >= rx.over /\ buffer = SubSeq(rx.frame, 1, Len(buffer)))
       => parse(buffer).r = "Err"
    /\ (rx.over > 0 /\ rx.n > 0 /\ Len(rx.before) >= rx.over
          /\ rx.before = SubSeq(rx.frame, 1, Len(rx.before)))
       => rx.last.r = "Err"

C16_Witness ==
    /\ rx.over > 0
    /\ rx.n > 0
    /\ Len(rx.before) > rx.over
    /\ rx.before = SubSeq(rx.frame, 1, Len(rx.before))
    /\ rx.frame = <<42, 49>> \o CRLF \o <<42>> \o FormatI64(MAX_ARRAY_SIZE + 1) \o CRLF
                   \o <<97, 97, CR, NL>>
    /\ rx.last.r = "Err"

\* C17: whenever no get is between its cache lookup and the recording of
\* its miss, hits + misses equals the number of get calls issued to the
\* cached store since it was created.
C17_CacheAccounting ==
    (\A t \in Threads : thr[t].pc # "get_store")
    => stats.hits + stats.misses = sh.gets

\* C18: once ToonCache::delete(id) has returned Ok, a get(id) that starts
\* now returns an error, not bytes.
C18_CacheDeleteFinal ==
    \A id \in sh.deleted : CacheGet(store, lru, id).res.err # "Ok"

(* The ids put and not deleted since, below len(). *)
LiveIds == {id \in 0 .. StoreLen(store) - 1 : HasPut(id) /\ id \notin sh.deleted}

\* C19: on an open store, a scan run with no other call in between yields
\* exactly one item (id, the bytes put as id) for every id put and not
\* deleted, in strictly ascending id order, no deleted id, and nothing when
\* the store holds no row.
C19_ScanComplete ==
    LET items == StoreScan(store)
    IN  ~store.closed
        => /\ \A i \in 1 .. Len(items) :
                 /\ items[i].id \in LiveIds
                 /\ items[i].res = Ok(PutLine(items[i].id))
           /\ \A id \in LiveIds : \E i \in 1 .. Len(items) : items[i].id = id
           /\ \A i, j \in 1 .. Len(items) : i < j => items[i].id < items[j].id
           /\ StoreLen(store) = 0 => items = <<>>

\* C20: the data file is never longer than MAX_DB_SIZE, the size put tests
\* is the length of the data file, and on an open store put of a record of
\* n <= MAX_VALUE_SIZE bytes answers DatabaseFull exactly when file length
\* + n + 1 exceeds MAX_DB_SIZE, and then changes neither file nor index.
C20_SizeBound ==
    /\ Len(store.data_file) <= MAX_DB_SIZE
    /\ store.db_size = Len(store.data_file)
    /\ \A line \in Lines :
          (~store.closed /\ Len(line) <= MAX_VALUE_SIZE)
          => /\ StorePut(store, line).res = Err("DatabaseFull")
                <=> Len(store.data_file) + Len(line) + 1 > MAX_DB_SIZE
             /\ StorePut(store, line).res = Err("DatabaseFull")
                => StorePut(store, line).store = store

C20_Witness ==
    /\ ~store.closed
    /\ Len(store.data_file) = MAX_DB_SIZE - 1
    /\ Len(sh.puts) > 1
    /\ StorePut(store, <<97>>).res = Err("DatabaseFull")
    /\ StorePut(store, <<>>).res = Ok(<<Len(store.index)>>)

\* C21: on an open store put of a record longer than MAX_VALUE_SIZE
\* answers ValueTooLarge and leaves len(), the index and the data file as
\* they were; a record of exactly MAX_VALUE_SIZE bytes is not too large:
\* put accepts it whenever the data file has room for it.
C21_Oversize ==
    \A line \in Lines :
        ~store.closed
        => /\ Len(line) > MAX_VALUE_SIZE
              => /\ StorePut(store, line).res = Err("ValueTooLarge")
                 /\ StorePut(store, line).store = store
                 /\ StoreLen(StorePut(store, line).store) = StoreLen(store)
           /\ Len(line) = MAX_VALUE_SIZE
              => /\ StorePut(store, line).res.err # "ValueTooLarge"
                 /\ Len(store.data_file) + Len(line) + 1 <= MAX_DB_SIZE
                    => /\ StorePut(store, line).res = Ok(<<StoreLen(store)>>)
                       /\ StoreGet(StorePut(store, line).store, StoreLen(store)).err = "Ok"

C21_Witness ==
    /\ ~store.closed
    /\ \E i \in 1 .. Len(sh.puts) : Len(sh.puts[i][2]) = MAX_VALUE_SIZE
    /\ \E line \in Lines : StorePut(store, line).res = Err("ValueTooLarge")
    /\ Len(store.data_file) < MAX_DB_SIZE

\* C22: on a store that close() has closed, every put answers Closed and
\* every further close() answers Ok, both leaving the handle and its two
\* files as they are; and as long as the handle stays closed no step
\* changes the data file, the index file or the index.
C22_ClosedInert ==
    /\ store.closed
       => /\ \A line \in Lines : StorePut(store, line) = [store |-> store, res |-> Err("Closed")]
          /\ StoreClose(store) = store
    /\ [][(store.closed /\ store'.closed) => store' = store]_vars

C22_Witness ==
    /\ store.closed
    /\ sh.opens = "ok"
    /\ Len(store.index) > 1
    /\ \E i \in 1 .. Len(store.index) : ~IsSome(store.index[i])
    /\ Len(store.data_file) < MAX_DB_SIZE

\* C23: when the index file of a closed store has a wrong magic or was cut
\* short (inside its header, or before the last slot its count declares),
\* open fails with the Parse error kind and returns no handle.
C23_DamagedIndexParse ==
    (store.closed /\ sh.damage # "none")
    => open_existing(store.data_file, store.idx_file) = Err("Parse")

(* Row r of the store st has an offset. *)
RowLive(st, r) == r < Len(st.index) /\ IsSome(st.index[r + 1])

\* C24: in the step in which a SET k v that will reply OK takes effect
\* (under the directory's write lock), if k mapped to a live row r then
\* afterwards r is tombstoned, k maps to a live row r' > r, the data file
\* holds v and its terminator at the offset of r', GET k answers v, and
\* the data file as it was is a prefix of the data file: no byte stored
\* before was changed.
C24_UpdateReplaces ==
    [][\A t \in Threads :
         (thr[t].pc = "idle" /\ thr'[t].pc = "set_save"
            /\ thr'[t].key \in DOMAIN key_map /\ RowLive(store, key_map[thr'[t].key]))
         => LET k == thr'[t].key
                v == thr'[t].val
                r == key_map[k]
                r2 == key_map'[k]
                off == Unwrap(store'.index[r2 + 1])
            IN  /\ k \in DOMAIN key_map'
                /\ ~RowLive(store', r)
                /\ r < Len(store'.index)
                /\ r2 > r
                /\ RowLive(store', r2)
                /\ SubSeq(store'.data_file, off + 1, off + Len(v) + 1) = v \o <<NL>>
                /\ handle_get(key_map', store', lru', k).reply = BulkString(v)
                /\ SubSeq(store'.data_file, 1, Len(store.data_file)) = store.data_file
                /\ \A i \in 1 .. Len(store.index) :
                      i # r + 1 => store'.index[i] = store.index[i]]_vars

C24_Witness ==
    \E t \in Threads :
        /\ thr[t].pc = "set_save"
        /\ thr[t].n = 1
        /\ thr[t].val = <<NL>>
        /\ thr[t].id < Len(store.index)
        /\ ~IsSome(store.index[thr[t].id + 1])
        /\ thr[t].key \in DOMAIN key_map
        /\ key_map[thr[t].key] > thr[t].id
        /\ RowLive(store, key_map[thr[t].key])

\* C25: whenever a DEL k1 ... kn can run (no GET holds the directory), its
\* reply is the number of named keys that were in the directory with a
\* live row, those rows are tombstoned by it, afterwards no named key is in
\* the directory (GET answers the null bulk, EXISTS counts 0), and every
\* key not named keeps its mapping and the answer GET gives for it.
C25_DelResult ==
    NoReaders
    => \A args \in DelArgs :
          LET r == DelLoop(args, Len(args), key_map, store, lru)
              ks == {args[i] : i \in 1 .. Len(args)}
          IN  /\ r.deleted = Cardinality({k \in ks : /\ k \in DOMAIN key_map
                                                      /\ RowLive(store, key_map[k])})
              /\ \A k \in ks :
                    /\ k \in DOMAIN key_map => ~RowLive(r.store, key_map[k])
                    /\ k \notin DOMAIN r.key_map
                    /\ handle_get(r.key_map, r.store, r.cache, k).reply = NilBulk
                    /\ handle_exists(r.key_map, k) = Integer(0)
              /\ \A k \in Keys \ ks :
                    /\ k \in DOMAIN r.key_map <=> k \in DOMAIN key_map
                    /\ k \in DOMAIN key_map => r.key_map[k] = key_map[k]
                    /\ handle_get(r.key_map, r.store, r.cache, k).reply
                          = handle_get(key_map, store, lru, k).reply

\* C26: when FLUSHDB replies OK, no SET, DEL or FLUSHDB of another
\* connection was processed since it cleared the directory and no other
\* command is in flight, then DBSIZE is 0, GET of every key answers the
\* null bulk, the cache holds no entry and the directory file holds no
\* entry.
C26_FlushdbEffect ==
    [][\A t \in Threads :
         (HandleFlushdbSave(t) /\ thr[t].live
            /\ \A u \in Threads : thr'[u].pc = "idle")
         => /\ handle_dbsize(key_map') = Integer(0)
            /\ \A k \in Keys : handle_get(key_map', store', lru', k).reply = NilBulk
            /\ LruLen(lru') = 0
            /\ lru'.head = None
            /\ load_keymap(keymap_file') = EmptyMap
            /\ keymap_file' = <<>>]_vars

C26_Witness ==
    /\ \E t \in Threads : thr[t].pc = "flush_save" /\ thr[t].live
    /\ \A t \in Threads : thr[t].pc \in {"flush_save", "idle"}
    /\ keymap_file # <<>>
    /\ Len(store.index) > 1
    /\ \E i \in 1 .. Len(store.index) : IsSome(store.index[i])

\* C27: whenever no command is in flight (every SET, DEL and FLUSHDB
\* processed so far has returned its reply), the entries read from the
\* directory file are exactly the key -> row id pairs of the in-memory
\* directory.
C27_DirectoryPersisted ==
    (\A t \in Threads : thr[t].pc = "idle") => load_keymap(keymap_file) = key_map

\* C28: no two connections are inside save_keymap (between truncating the
\* directory file and flushing the entries) at the same time.
C28_SavesSerialized ==
    Cardinality({t \in Threads : thr[t].pc \in {"set_write", "del_write", "flush_write"}}) <= 1

(* The row ids put and not deleted whose bytes are JSON with the string id. *)
RowsWithId(id) ==
    {r \in 0 .. Len(sh.records) - 1 : r \notin sh.dead /\ JsonId(sh.records[r + 1]) = Some(id)}

(* The directory the claim describes: id -> the highest such row. *)
ExpectedDirectory ==
    LET ids == {Unwrap(JsonId(sh.records[r + 1])) :
                  r \in {x \in 0 .. Len(sh.records) - 1 :
                           x \notin sh.dead /\ IsSome(JsonId(sh.records[x + 1]))}}
    IN  [id \in ids |-> CHOOSE r \in RowsWithId(id) : \A q \in RowsWithId(id) : q <= r]

\* C29: after the handler has started, if keymap.txt gave no entry the
\* directory is exactly id -> row id over the live records that are JSON
\* with a string member id (the highest row winning), and when it is not
\* empty keymap.txt holds it; if keymap.txt gave an entry the directory is
\* what the file held and the file is untouched.
C29_Rebuild ==
    sh.started
    => IF load_keymap(sh.file0) = EmptyMap
       THEN /\ key_map = ExpectedDirectory
            /\ key_map # EmptyMap => load_keymap(keymap_file) = key_map
       ELSE /\ key_map = load_keymap(sh.file0)
            /\ keymap_file = sh.file0

(* The ordering of one connection: the i-th message written is the response
   to the i-th request sent, a call of handle is in progress only for the
   request after the last one answered, and when every byte sent has been
   read and the loop waits for more, every request has its response. *)
ConnOrder ==
    /\ Len(rx.out) <= Len(rx.sent)
    /\ \A i \in 1 .. Len(rx.out) : rx.out[i] = ConnHandleMsg(rx.sent[i])
    /\ rx.begun = Len(rx.out) + (IF rx.pc \in {"handle", "write"} THEN 1 ELSE 0)
    /\ rx.pc \in {"handle", "write"} => rx.cmd = rx.sent[rx.begun]
    /\ (rx.pc = "read" /\ wire = <<>>)
       => /\ Len(rx.out) = Len(rx.sent)
          /\ buffer = <<>>

\* C30: on a connection on which no parse error has been reported, the
\* i-th message written is the response of handle to the i-th request
\* sent; a call of handle is in progress only for the request after the
\* last one answered; and once every byte sent has been read and the loop
\* waits for more, every request has exactly one response and the buffer
\* is empty.
C30_ConnOrderNoError == rx.errs = 0 => ConnOrder

C30_Witness ==
    /\ rx.pc = "read"
    /\ wire = <<>>
    /\ rx.errs = 0
    /\ Len(rx.out) = MaxRequests
    /\ rx.out[1] = MsgBulk(CRLF)
    /\ rx.out[2] = MsgSimple(TextPONG)

\* C30 as stated: the same on every connection, whatever frames came
\* before a well-formed request.
C30_ConnOrder == ConnOrder

Running == {c \in Peers : thr.task[c] = "running"}

\* C31: at every moment at most MAX_CONNECTIONS connection tasks hold a
\* permit and the permits held and left add up to MAX_CONNECTIONS; an
\* iteration of the accept loop that finds no permit left spawns no task,
\* takes no permit and completes (the connection is rejected); the end of
\* a connection task, by peer close or by error, returns one permit.
C31_ConnectionCap ==
    /\ [](/\ Cardinality(Running) <= MAX_CONNECTIONS
          /\ thr.permits = MAX_CONNECTIONS - Cardinality(Running))
    /\ [][\A c \in Peers :
            /\ (thr.task[c] # "running" /\ thr'.task[c] # thr.task[c]
                  /\ Cardinality(Running) = MAX_CONNECTIONS)
               => /\ thr'.task[c] = "rejected"
                  /\ thr'.permits = thr.permits
                  /\ sh'.spawned = sh.spawned
                  /\ \A d \in Peers \ {c} : thr'.task[d] = thr.task[d]
            /\ (sh'.rejected # sh.rejected)
               => Cardinality(Running) = MAX_CONNECTIONS
            /\ (thr.task[c] = "running" /\ thr'.task[c] # "running")
               => /\ thr'.task[c] \in {"closed", "failed"}
                  /\ thr'.permits = thr.permits + 1]_vars

C31_Witness ==
    /\ Cardinality(Running) = MAX_CONNECTIONS
    /\ thr.permits = 0
    /\ \E c \in Peers : thr.task[c] = "rejected"
    /\ \E c \in Peers : thr.task[c] = "failed"
    /\ sh.spawned > MAX_CONNECTIONS + 1
    /\ sh.rejected > 1

\* C32: no two successful puts on the data directory returned the same row
\* id, whether the processes in between ended through close or were killed.
C32_RowIdsNeverReused ==
    \A i, j \in 1 .. Len(sh.puts) : i # j => sh.puts[i][1] # sh.puts[j][1]

(* The whole of the key from position i on matches the pattern from position
   j on: "*" stands for any sequence of characters, "?" for one character,
   every other character for itself. *)
RECURSIVE Glob(_, _, _, _)
Glob(key, pattern, i, j) ==
    IF j > Len(pattern) THEN i > Len(key)
    ELSE IF pattern[j] = Star THEN \E n \in i .. Len(key) + 1 : Glob(key, pattern, n, j + 1)
    ELSE IF pattern[j] = Question THEN i <= Len(key) /\ Glob(key, pattern, i + 1, j + 1)
    ELSE i <= Len(key) /\ key[i] = pattern[j] /\ Glob(key, pattern, i + 1, j + 1)

\* C33: matches_pattern(key, pattern) is true iff the whole key matches the
\* pattern ("*" any sequence, "?" one character, other characters
\* themselves), and a KEYS call with a pattern answers with exactly the
\* directory keys that match it, each once; without an argument it answers
\* with every key.
C33_KeysPattern ==
    /\ \A k \in DOMAIN key_map :
          \A p \in Patterns : matches_pattern(k, p) = Glob(k, p, 1, 1)
    /\ (sh.called /\ sh.reply.err = "")
       => LET pattern == IF Len(sh.args) = 0 THEN <<Star>> ELSE sh.args[1]
          IN  /\ {sh.reply.keys[i] : i \in 1 .. Len(sh.reply.keys)}
                   = {k \in DOMAIN key_map : Glob(k, pattern, 1, 1)}
              /\ \A i, j \in 1 .. Len(sh.reply.keys) :
                    sh.reply.keys[i] = sh.reply.keys[j] => i = j
    /\ (sh.called /\ sh.reply.err # "") => ~IsUtf8(sh.args[1])

C33_Witness ==
    /\ sh.called
    /\ sh.args = << <<Star, 97, Star, 97>> >>
    /\ sh.reply.keys = << <<97, 98, 97>> >>
    /\ Cardinality(DOMAIN key_map) = 2

\* C34: in a sequential history of put, get, delete and clear_cache on a
\* cached store, at every point get(id) of the cached store returns what
\* get(id) of the record store returns there: the same bytes or the same
\* error; in particular it returns no bytes for a tombstoned id.
C34_CacheCoherent ==
    \A row_id \in RowIds : CacheGet(store, lru, row_id).res = StoreGet(store, row_id)

(* Key k is in the cache. *)
Held(c, k) == k \in DOMAIN c.map

(* The value the cache keeps for the present key k. *)
StoredValue(c, k) == Unwrap(NodeAt(c, c.map[k])).value

\* C35: over every call: a present key has an occupied slot holding it; a
\* put(k, v) leaves k present with value v; no other call makes a key
\* present or changes the value of a present key, so the value of a present
\* key is that of its latest put; get(k) returns that value when k is
\* present and None otherwise, and changes no key; put on a present key
\* keeps the set of keys (len() the same, nothing evicted); remove(k)
\* returns the value of a present k, leaves k absent and len() one less,
\* and returns None for an absent k; clear leaves no key.
C35_Lookup ==
    [][\A k \in LruKeys :
          LET op == lruOp'.op
              called == lruOp'.key = k
              result == lruOp'.result
              was == IF Held(lru, k) THEN Some(StoredValue(lru, k)) ELSE None
          IN  /\ Held(lru', k)
                 => /\ IsSome(NodeAt(lru', lru'.map[k]))
                    /\ Unwrap(NodeAt(lru', lru'.map[k])).key = k
              /\ (op = "put" /\ called)
                 => /\ Held(lru', k)
                    /\ Some(StoredValue(lru', k)) = result
                    /\ Held(lru, k) => DOMAIN lru'.map = DOMAIN lru.map
              /\ (~(op = "put" /\ called) /\ Held(lru', k))
                 => /\ Held(lru, k)
                    /\ StoredValue(lru', k) = StoredValue(lru, k)
              /\ (op = "get" /\ called)
                 => /\ result = was
                    /\ DOMAIN lru'.map = DOMAIN lru.map
              /\ (op = "remove" /\ called)
                 => /\ result = was
                    /\ ~Held(lru', k)
                    /\ DOMAIN lru'.map = DOMAIN lru.map \ {k}
                    /\ LruLen(lru') = LruLen(lru) - (IF Held(lru, k) THEN 1 ELSE 0)
              /\ op = "clear" => ~Held(lru', k)]_vars

C35_Witness ==
    /\ lruOp.op = "get"
    /\ lruOp.result = Some("b")
    /\ lru.capacity = MaxCapacity
    /\ LruLen(lru) = MaxCapacity - 1
    /\ Len(lru.free_list) > 0
    /\ \E k \in DOMAIN lru.map : k # lruOp.key /\ StoredValue(lru, k) = "a"

(* The put of handle_set(k, v) in the current state fails. *)
SetFails(k, v) ==
    LET d == SetDeleteOld(key_map, store, lru, k)
    IN  CachePut(d.store, d.cache, v).res.err # "Ok"

(* C36: when SET k v is answered with an error, GET k gives afterwards
   the reply it gave just before that SET, and the directory in memory and
   its file are the ones of before.  Stated on the steps of handle_set. *)
C36_FailedSetKeepsValue ==
    [][\A t \in Threads, k \in Keys, v \in Values :
          HandleSet(t, k, v) /\ SetFails(k, v) =>
              /\ handle_get(key_map', store', lru', k).reply
                     = handle_get(key_map, store, lru, k).reply
              /\ key_map' = key_map
              /\ keymap_file' = keymap_file]_vars

(* The part that holds: a failed SET leaves the directory, in memory and on
   disk, as it was. *)
C36_FailedSetKeepsDirectory ==
    [][\A t \in Threads, k \in Keys, v \in Values :
          HandleSet(t, k, v) /\ SetFails(k, v) =>
              key_map' = key_map /\ keymap_file' = keymap_file]_vars

(* C37: delete(id), whether it returns Ok or an error, leaves len(), the
   bytes of the data file and the result of get(j) for every j other than
   id as they were; when it returns NotFound, slot id and get(id) are as
   they were too.  Stated on the steps of delete. *)
C37_DeleteFrame ==
    [][\A t \in Threads, id \in RowIds :
          DeleteOp(t, id) =>
              /\ StoreLen(store') = StoreLen(store)
              /\ store'.data_file = store.data_file
              /\ store'.db_size = store.db_size
              /\ \A j \in RowIds \ {id} :
                    /\ StoreGet(store', j) = StoreGet(store, j)
                    /\ GetLookup(store', j) = GetLookup(store, j)
              /\ StoreDelete(store, id).res = Err("NotFound") =>
                    /\ store'.index = store.index
                    /\ StoreGet(store', id) = StoreGet(store, id)]_vars

(* A delete has succeeded on a row that has a live row after it, and a
   further delete of the same row would fail with NotFound. *)
C37_Witness ==
    /\ ~store.closed
    /\ \E id \in sh.deleted :
          /\ StoreDelete(store, id).res = Err("NotFound")
          /\ \E j \in ScanLive(store) : j > id

(* C38: no interleaving of SET, GET, MGET, DEL and FLUSHDB commands reaches
   a state in which the threads that are inside a command all wait for a
   lock, and every command that was dispatched returns. *)
C38_NoDeadlock ==
    /\ []((\E t \in Threads : thr[t].pc # "idle")
              => \E t \in Threads : thr[t].pc # "idle" /\ CanAdvance(t))
    /\ \A t \in Threads : (thr[t].pc # "idle") ~> (thr[t].pc = "idle")

(* One thread is parked on the directory lock while the other, inside
   SET's put, holds the directory, db_size and the data file. *)
C38_Witness ==
    \E t, u \in Threads :
        /\ thr[t].pc = "put_index" /\ sh["data_file"].w = t /\ sh["key_map"].w = t
        /\ thr[u].pc = "handle" /\ Parked(u, "key_map") /\ ~CanAdvance(u)

(* C39: once FLUSHDB has been answered and while no SET follows it, the
   handler, also when it is created again over the same data directory,
   answers DBSIZE with 0 and every GET with the null bulk. *)
C39_FlushSurvivesRestart ==
    sh.flushed /\ sh.started =>
        /\ handle_dbsize(key_map) = Integer(0)
        /\ \A k \in Keys : handle_get(key_map, store, lru, k).reply = NilBulk

(* The slots met by following next links from slot `at`, for at most
   `fuel` links; the walk stops at a slot that is vacant or out of range. *)
RECURSIVE ListFrom(_, _, _)
ListFrom(c, at, fuel) ==
    IF fuel = 0 \/ ~IsSome(at) THEN <<>>
    ELSE IF Unwrap(at) >= Len(c.nodes) THEN <<>>
    ELSE IF ~IsSome(NodeAt(c, Unwrap(at))) THEN <<>>
    ELSE <<Unwrap(at)>> \o ListFrom(c, Unwrap(NodeAt(c, Unwrap(at))).next, fuel - 1)

(* The sequence q has no element twice. *)
NoDuplicates(q) == \A i, j \in 1 .. Len(q) : q[i] = q[j] => i = j

(* C40: after every LruCache operation, following next links from head
   visits each slot referenced by the map exactly once and ends at tail,
   whose next is none; prev links are the inverse of next links; every map
   entry points to an occupied slot holding that key; free_list holds
   exactly the vacant arena slots, each once. *)
C40_ListIntegrity ==
    LET walk == ListFrom(lru, lru.head, Len(lru.nodes) + 1)
    IN  /\ \A k \in DOMAIN lru.map :
              /\ lru.map[k] < Len(lru.nodes)
              /\ IsSome(NodeAt(lru, lru.map[k]))
              /\ Unwrap(NodeAt(lru, lru.map[k])).key = k
        /\ NoDuplicates(walk)
        /\ {walk[i] : i \in 1 .. Len(walk)} = {lru.map[k] : k \in DOMAIN lru.map}
        /\ IF walk = <<>> THEN lru.head = None /\ lru.tail = None
           ELSE /\ lru.tail = Some(walk[Len(walk)])
                /\ Unwrap(NodeAt(lru, walk[Len(walk)])).next = None
        /\ \A i \in 1 .. Len(walk) :
              Unwrap(NodeAt(lru, walk[i])).prev = IF i = 1 THEN None ELSE Some(walk[i - 1])
        /\ NoDuplicates(lru.free_list)
        /\ {lru.free_list[i] : i \in 1 .. Len(lru.free_list)}
               = {i \in 0 .. Len(lru.nodes) - 1 : ~IsSome(NodeAt(lru, i))}

====
